---- MODULE Spec2Model ----
(***************************************************************************)
(* Birdex (src/app.py): the discovery store (users, discoveries, photos),  *)
(* the per-user view cache and the request handlers that read and write    *)
(* them.  Each handler is one atomic action (one request runs to           *)
(* completion before the next one starts).                                 *)
(***************************************************************************)
EXTENDS Integers, Sequences, FiniteSets, TLC

(***************************************************************************)
(* Bounds of the model.                                                    *)
(***************************************************************************)
MaxUsers == 2      \* rows of the users table (the admin included)
MaxClock == 1      \* last value of CURRENT_TIMESTAMP (seconds)
MaxPhotoId == 4    \* last AUTOINCREMENT id of the photos table
FewPhotoIds == 2     \* the photo ids of the runs that do not need more
MaxToken == 2      \* number of share tokens uuid4 hands out

(***************************************************************************)
(* JSON / Python values.  Every value is a record tagged with its type so  *)
(* that values of different types can be compared.                         *)
(*   text string   [t |-> "str", v |-> sequence of tokens]                 *)
(*   image string  [t |-> "str", hdr, img, w, h, q]  (a decodable          *)
(*                 base64 image, hdr = "" when it has no data: header)     *)
(*   null, number, array, object                                           *)
(***************************************************************************)
Str(toks) == [t |-> "str", v |-> toks]
Null == [t |-> "null"]
Num(tok) == [t |-> "num", v |-> <<tok>>]
Arr(s) == [t |-> "arr", s |-> s]
Obj(m) == [t |-> "obj", m |-> m]
Items(s) == [t |-> "obj", items |-> s]
ImageStr(hdr, img, w, h, q) == [t |-> "str", hdr |-> hdr, img |-> img, w |-> w, h |-> h, q |-> q]
EmptyStr == Str(<<>>)
EmptyObj == Obj(<<>>)

IsStr(x) == x.t = "str"
IsText(x) == x.t = "str" /\ "v" \in DOMAIN x
IsImage(x) == x.t = "str" /\ "img" \in DOMAIN x
IsDict(x) == x.t = "obj"
IsList(x) == x.t = "arr"

\* Python truthiness ("if x", "not x")
Truthy(x) ==
    CASE x.t = "null" -> FALSE
      [] x.t = "num" -> x.v # <<"0">>
      [] x.t = "arr" -> x.s # <<>>
      [] x.t = "obj" -> IF "items" \in DOMAIN x THEN x.items # <<>> ELSE DOMAIN x.m # {}
      [] IsText(x) -> x.v # <<>>
      [] OTHER -> TRUE

\* "key in d" on a JSON value: membership of a key for an object; for a
\* list or a string it is element / substring containment (none of the
\* modelled lists and strings contains a field name); anything else raises.
InRaises(x) == x.t \in {"null", "num"}
HasKey(x, key) == IsDict(x) /\ key \in DOMAIN x.m

\* d.get(key, '')
Get(x, key) == IF key \in DOMAIN x.m THEN x.m[key] ELSE EmptyStr

\* the types sqlite3 binds as a statement parameter
Bindable(x) == x.t \in {"null", "num", "str"}

(***************************************************************************)
(* sanitize_input: bleach.clean(text, tags=[], strip=True) removes every   *)
(* tag and escapes the markup characters that remain.                      *)
(***************************************************************************)
Tags == {"<b>", "</b>", "<script>", "</script>"}

Escape(tok) ==
    CASE tok = "&" -> "&amp;"
      [] tok = "<" -> "&lt;"
      [] tok = ">" -> "&gt;"
      [] OTHER -> tok

RECURSIVE Clean(_)
Clean(toks) ==
    IF toks = <<>> THEN <<>>
    ELSE IF Head(toks) \in Tags THEN Clean(Tail(toks))
    ELSE <<Escape(Head(toks))>> \o Clean(Tail(toks))

sanitize_input(text) ==
    IF ~Truthy(text) \/ ~IsStr(text) THEN text
    ELSE IF IsText(text) THEN Str(Clean(text.v))
    ELSE text

(***************************************************************************)
(* compress_image                                                          *)
(***************************************************************************)
DefaultHeader == "data:image/jpeg;base64,"
PngHeader == "data:image/png;base64,"
CommaTokens == {",", DefaultHeader, PngHeader}

HasComma(toks) == \E i \in 1..Len(toks) : toks[i] \in CommaTokens
FirstComma(toks) == CHOOSE i \in 1..Len(toks) :
                        /\ toks[i] \in CommaTokens
                        /\ \A j \in 1..(i - 1) : toks[j] \notin CommaTokens

Abs(n) == IF n < 0 THEN -n ELSE n
Max2(a, b) == IF a >= b THEN a ELSE b
CeilDiv(a, b) == (a + b - 1) \div b

\* Image.resize((X, Y)): the image gets the size of the box
ResizeToBox(w, h, X, Y) == <<X, Y>>

\* Image.thumbnail((X, Y)): proportional downscale into the box, never up
ThumbnailSize(w, h, X, Y) ==
    IF X >= w /\ Y >= h THEN <<w, h>>
    ELSE IF X * h >= Y * w
         THEN LET lo == (Y * w) \div h
                  hi == CeilDiv(Y * w, h)
                  x == IF Abs(w * Y - lo * h) <= Abs(w * Y - hi * h) THEN lo ELSE hi
              IN  <<Max2(x, 1), Y>>
         ELSE LET lo == (X * h) \div w
                  hi == CeilDiv(X * h, w)
                  y == IF lo = 0 THEN lo
                       ELSE IF Abs(w * lo - X * h) * hi <= Abs(w * hi - X * h) * lo
                            THEN lo ELSE hi
              IN  <<X, Max2(y, 1)>>

\* len() of the JPEG bytes of a w x h rendition
JpegBytes(w, h, q) == w * h

Degraded(full) == [full |-> full, thumbnail |-> Null, size |-> 0]

\* str(x): the text of a string, "None", the digits of a number, and for a
\* list or a mapping a text that holds a comma when there are two elements
StrOf(x) ==
    CASE x.t = "null" -> <<"None">>
      [] x.t = "num" -> x.v
      [] x.t = "arr" -> IF Len(x.s) >= 2 THEN <<"[", ",", "]">> ELSE <<"[", "]">>
      [] x.t = "obj" -> IF "items" \in DOMAIN x
                        THEN (IF Len(x.items) >= 2 THEN <<"{", ",", "}">> ELSE <<"{", "}">>)
                        ELSE (IF Cardinality(DOMAIN x.m) >= 2 THEN <<"{", ",", "}">> ELSE <<"{", "}">>)
      [] IsText(x) -> x.v
      [] OTHER -> <<x.hdr, x.img>>

\* the except clause returns no primary at all
FallbackWithoutPrimary(image_data) == Degraded(Null)

\* lines 314-321: the result of the except clause, from the value
\* image_data is bound to when the exception is raised
Fallback(image_data) ==
    IF HasComma(StrOf(image_data)) THEN Degraded(image_data)
    ELSE Degraded(Str(<<DefaultHeader>> \o StrOf(image_data)))

\* lines 262-269: the part of a text after its first comma
AfterHeader(v) == IF HasComma(v) THEN SubSeq(v, FirstComma(v) + 1, Len(v)) ELSE v

\* texts base64.b64decode rejects (incorrect padding)
BadBase64 == {"A"}

\* lines 256-278: the exception raised inside the try block
Raised(image_data) ==
    IF ~Truthy(image_data) THEN "ValueError"
    ELSE IF image_data.t = "num" THEN "TypeError"
    ELSE IF ~IsStr(image_data) THEN "ValueError"
    ELSE IF IsText(image_data) THEN
        IF \E i \in 1..Len(AfterHeader(image_data.v)) : AfterHeader(image_data.v)[i] \in BadBase64
        THEN "ValueError"
        ELSE "UnidentifiedImageError"
    ELSE "none"

\* the ValueError of an empty payload or of b64decode reaches the caller
InvalidInput == [error |-> "ValueError"]
compress_image_raising(image_data) ==
    IF Raised(image_data) = "ValueError" THEN InvalidInput
    ELSE IF ~IsStr(image_data) THEN Fallback(image_data)
    ELSE IF IsText(image_data) THEN Fallback(Str(AfterHeader(image_data.v)))
    ELSE
        LET header == IF image_data.hdr # "" THEN image_data.hdr ELSE DefaultHeader
            f == ThumbnailSize(image_data.w, image_data.h, 800, 800)
            s == ThumbnailSize(image_data.w, image_data.h, 200, 200)
        IN  [full |-> ImageStr(header, image_data.img, f[1], f[2], 85),
             thumbnail |-> ImageStr(header, image_data.img, s[1], s[2], 75),
             size |-> JpegBytes(f[1], f[2], 85)]

compress_image(image_data) ==
    IF ~Truthy(image_data) THEN
        \* ValueError("Données d'image vides")
        Fallback(image_data)
    ELSE IF ~IsStr(image_data) THEN
        \* "',' in image_data" or b64decode raises
        Fallback(image_data)
    ELSE IF IsText(image_data) THEN
        \* not an image: b64decode or Image.open raises after the header
        \* was split off and image_data rebound to the part after it
        Fallback(Str(AfterHeader(image_data.v)))
    ELSE
        LET header == IF image_data.hdr # "" THEN image_data.hdr ELSE DefaultHeader
            f == ThumbnailSize(image_data.w, image_data.h, 800, 800)
            s == ThumbnailSize(image_data.w, image_data.h, 200, 200)
        IN  [full |-> ImageStr(header, image_data.img, f[1], f[2], 85),
             thumbnail |-> ImageStr(header, image_data.img, s[1], s[2], 75),
             size |-> JpegBytes(f[1], f[2], 85)]

(***************************************************************************)
(* json.dumps / json.loads of the coordinates                              *)
(***************************************************************************)
json_dumps(x) ==
    Str(<<"{">>
        \o (IF "lat" \in DOMAIN x.m THEN <<"\"lat\":", x.m.lat>> ELSE <<>>)
        \o (IF "lng" \in DOMAIN x.m THEN <<"\"lng\":", x.m.lng>> ELSE <<>>)
        \o <<"}">>)


\* json.loads of a stored text; JsonError stands for "raises"
JsonError == [t |-> "error"]

RECURSIVE ParsePairs(_)
ParsePairs(toks) ==
    IF toks = <<>> THEN [ok |-> TRUE, keys |-> {}, lat |-> "", lng |-> ""]
    ELSE IF Len(toks) < 2 THEN [ok |-> FALSE, keys |-> {}, lat |-> "", lng |-> ""]
    ELSE LET r == ParsePairs(Tail(Tail(toks)))
         IN  IF toks[1] = "\"lat\":" THEN [r EXCEPT !.keys = @ \cup {"lat"}, !.lat = toks[2]]
             ELSE IF toks[1] = "\"lng\":" THEN [r EXCEPT !.keys = @ \cup {"lng"}, !.lng = toks[2]]
             ELSE [r EXCEPT !.ok = FALSE]

Digits == {"0", "5", "7"}

json_loads(text) ==
    LET v == text.v
    IN  IF Len(v) >= 2 /\ v[1] = "{" /\ v[Len(v)] = "}"
        THEN LET r == ParsePairs(SubSeq(v, 2, Len(v) - 1))
             IN  IF r.ok THEN Obj([key \in r.keys |-> IF key = "lat" THEN r.lat ELSE r.lng])
                 ELSE JsonError
        ELSE IF Len(v) = 1 /\ v[1] \in Digits THEN Num(v[1])
        ELSE JsonError

(***************************************************************************)
(* The state: the three tables of ornithedex_v2.db, the SimpleCache, the   *)
(* clock, the session cookie of the client and the last response.          *)
(***************************************************************************)
VARIABLES
    users,        \* users table: row i has id i
    discoveries,  \* discoveries table: row i has id i (no row is ever deleted)
    photos,       \* photos table: a set of rows
    photo_seq,    \* sqlite_sequence of photos (AUTOINCREMENT)
    token_seq,    \* number of uuid4 share tokens handed out
    cache,        \* flask_caching SimpleCache: key -> entry
    stale,        \* history: keys whose entry was computed before the latest
                  \* committed save_discoveries of the owner of the key
    now,          \* CURRENT_TIMESTAMP
    session,      \* the session cookie
    conns,        \* the requests in progress on connections of their own:
                  \* request -> position, data and uncommitted transaction
    resp          \* response of the request handled in the last step

vars == <<users, discoveries, photos, photo_seq, token_seq, cache, stale, now, session, conns, resp>>

Species == {"0001", "0002"}
UserIds == 1..MaxUsers
Tokens == 1..MaxToken

KeyPrefixes == {"discoveries_v2", "metadata_v2", "discoveries_light"}
CacheKeys == KeyPrefixes \X UserIds
Absent == [present |-> FALSE]
Entry(val) == [present |-> TRUE, val |-> val]

NoSession == [user_id |-> 0]

\* the two requests that can be in progress at once, and a request that
\* has not been made
Requests == {1, 2}
Idle == [pc |-> "idle", status |-> 0]
NoResp == [op |-> "none", status |-> 0, dropped |-> {}]

hash_password(password) == [sha256 |-> password]

TextFields == {"location", "city", "region", "country", "date", "sex", "note"}

\* a TEXT column stores a number as its text
ToText(x) == IF x.t = "num" THEN Str(x.v) ELSE x

(***************************************************************************)
(* save_discoveries: the statements of one transaction.  tx is the state   *)
(* the connection sees: the tables with the uncommitted changes, the       *)
(* number n of photo rows inserted so far, the number done of species      *)
(* processed so far and whether a statement raised.                        *)
(***************************************************************************)
Begin(tick_at) ==
    [discoveries |-> discoveries, photos |-> photos, photo_seq |-> photo_seq,
     n |-> 0, done |-> 0, tick_at |-> tick_at, err |-> FALSE, e |-> "", full |-> FALSE]

\* CURRENT_TIMESTAMP of the next statement: the clock advances once during
\* the request when tick_at > 0, after tick_at photo rows were inserted
TxTime(tx) == IF tx.tick_at > 0 /\ tx.n >= tx.tick_at THEN now + 1 ELSE now

\* str(e) of the exceptions the handlers catch: of sqlite3.IntegrityError and
\* sqlite3.ProgrammingError, raised by the store, and of the TypeError and
\* AttributeError raised on a value that is not of the expected type
UniqueFailed == "UNIQUE constraint failed: discoveries.user_id, discoveries.bird_number"
NotNullFailed == "NOT NULL constraint failed: photos.photo_data"
BindingFailed == "Error binding parameter: type is not supported"
DatabaseLocked == "database is locked"
NotIterable(x) == IF x.t = "null" THEN "argument of type 'NoneType' is not iterable"
                  ELSE "argument of type 'int' is not iterable"
NoItems(x) == IF x.t = "arr" THEN "'list' object has no attribute 'items'"
              ELSE IF x.t = "num" THEN "'int' object has no attribute 'items'"
              ELSE "'str' object has no attribute 'items'"
ObjectNotIterable(x) == IF x.t = "null" THEN "'NoneType' object is not iterable"
                        ELSE "'int' object is not iterable"

\* the statement raises: e is the text of the exception
Raise(tx, e) == [tx EXCEPT !.err = TRUE, !.e = e]

FindDiscovery(discs, user_id, bird_number) ==
    {i \in 1..Len(discs) : discs[i].user_id = user_id /\ discs[i].bird_number = bird_number}

\* INSERT INTO discoveries: UNIQUE(user_id, bird_number)
InsertDiscovery(tx, user_id, bird_number) ==
    IF FindDiscovery(tx.discoveries, user_id, bird_number) # {} THEN Raise(tx, UniqueFailed)
    ELSE [tx EXCEPT !.discoveries = Append(@, [user_id |-> user_id, bird_number |-> bird_number,
                                               discovered_at |-> TxTime(tx), updated_at |-> TxTime(tx)])]

\* no UPDATE: updated_at keeps the time of the first synchronization
NoTouch(tx, discovery_id) == tx

\* UPDATE ... SET discovered_at = CURRENT_TIMESTAMP, updated_at = CURRENT_TIMESTAMP
TouchDiscoveryFrom(tx, discovery_id) ==
    [tx EXCEPT !.discoveries[discovery_id].updated_at = TxTime(tx),
               !.discoveries[discovery_id].discovered_at = TxTime(tx)]

\* lines 597-601
TouchDiscovery(tx, discovery_id) ==
    [tx EXCEPT !.discoveries[discovery_id].updated_at = TxTime(tx)]

\* no DELETE: the photos sent are appended to those stored
KeepPhotos(tx, discovery_id, user_id) == tx

\* DELETE FROM photos WHERE user_id = ?: every photo of the user
DeletePhotosOfUser(tx, discovery_id, user_id) ==
    [tx EXCEPT !.photos = {p \in @ : p.user_id # user_id}]

\* lines 603-606
DeletePhotos(tx, discovery_id, user_id) ==
    [tx EXCEPT !.photos = {p \in @ : ~(p.discovery_id = discovery_id /\ p.user_id = user_id)}]

\* INSERT INTO photos
InsertPhoto(tx, discovery_id, user_id, bird_number, photo_to_save, thumbnail, file_size, fields, coordinates) ==
    IF \/ ~Bindable(photo_to_save) \/ ~Bindable(thumbnail) \/ ~Bindable(coordinates)
       \/ \E f \in TextFields : ~Bindable(fields[f])
    THEN Raise(tx, BindingFailed)
    ELSE IF photo_to_save.t = "null" THEN Raise(tx, NotNullFailed)
    ELSE IF tx.photo_seq >= MaxPhotoId THEN [tx EXCEPT !.full = TRUE, !.err = TRUE]
    ELSE [tx EXCEPT
            !.photo_seq = @ + 1,
            !.n = @ + 1,
            !.photos = @ \cup {[id |-> tx.photo_seq + 1,
                                discovery_id |-> discovery_id,
                                user_id |-> user_id,
                                bird_number |-> bird_number,
                                photo_data |-> ToText(photo_to_save),
                                photo_thumbnail |-> ToText(thumbnail),
                                file_size |-> file_size,
                                location |-> ToText(fields["location"]),
                                city |-> ToText(fields["city"]),
                                region |-> ToText(fields["region"]),
                                country |-> ToText(fields["country"]),
                                coordinates |-> ToText(coordinates),
                                date |-> ToText(fields["date"]),
                                sex |-> ToText(fields["sex"]),
                                note |-> ToText(fields["note"]),
                                created_at |-> TxTime(tx)]}]

\* every entry goes through the codec, with or without id
save_photo_compress_all(tx, discovery_id, user_id, bird_number, photo_data) ==
    IF tx.err THEN tx
    ELSE IF InRaises(photo_data) THEN Raise(tx, NotIterable(photo_data))
    ELSE IF ~HasKey(photo_data, "photo") THEN tx
    ELSE IF ~Truthy(photo_data.m.photo) THEN tx
    ELSE LET compressed == compress_image(photo_data.m.photo)
             c0 == Get(photo_data, "coordinates")
             coordinates == IF IsDict(c0) THEN json_dumps(c0) ELSE c0
             fields == [f \in TextFields |-> sanitize_input(Get(photo_data, f))]
         IN  InsertPhoto(tx, discovery_id, user_id, bird_number,
                         compressed.full, compressed.thumbnail, compressed.size, fields, coordinates)

\* lines 610-651: one photo entry of a species
save_photo(tx, discovery_id, user_id, bird_number, photo_data) ==
    IF tx.err THEN tx
    ELSE IF InRaises(photo_data) THEN Raise(tx, NotIterable(photo_data))
    ELSE IF ~HasKey(photo_data, "photo") THEN tx
    ELSE IF ~Truthy(photo_data.m.photo) THEN tx
    ELSE LET is_new == ~HasKey(photo_data, "id")
             compressed == compress_image(photo_data.m.photo)
             photo_to_save == IF is_new THEN compressed.full ELSE photo_data.m.photo
             thumbnail == IF is_new THEN compressed.thumbnail ELSE Get(photo_data, "thumbnail")
             file_size == IF is_new THEN compressed.size ELSE 0
             c0 == Get(photo_data, "coordinates")
             coordinates == IF IsDict(c0) THEN json_dumps(c0) ELSE c0
             fields == [f \in TextFields |-> sanitize_input(Get(photo_data, f))]
         IN  InsertPhoto(tx, discovery_id, user_id, bird_number,
                         photo_to_save, thumbnail, file_size, fields, coordinates)

RECURSIVE save_photos(_, _, _, _, _)
save_photos(tx, discovery_id, user_id, bird_number, list) ==
    IF list = <<>> THEN tx
    ELSE save_photos(save_photo(tx, discovery_id, user_id, bird_number, Head(list)),
                     discovery_id, user_id, bird_number, Tail(list))

\* lines 582-606: look the discovery up or create it, touch it, delete its photos
open_discovery(tx, user_id, bird_number) ==
    LET found == FindDiscovery(tx.discoveries, user_id, bird_number)
    IN  IF found = {}
        THEN LET tx1 == InsertDiscovery(tx, user_id, bird_number)
             IN  [tx |-> DeletePhotos(tx1, Len(tx1.discoveries), user_id), id |-> Len(tx1.discoveries)]
        ELSE LET discovery_id == CHOOSE i \in found : TRUE
             IN  [tx |-> DeletePhotos(TouchDiscovery(tx, discovery_id), discovery_id, user_id),
                  id |-> discovery_id]

\* lines 581-651: one item of data.items()
Done(tx) == IF tx.err THEN tx ELSE [tx EXCEPT !.done = @ + 1]

\* the discovery looked up or created only for a species that comes with
\* entries
save_species_lazy(tx, user_id, bird_number, bird_data) ==
    IF tx.err THEN tx
    ELSE IF InRaises(bird_data) THEN Raise(tx, NotIterable(bird_data))
    ELSE IF HasKey(bird_data, "photos") /\ IsList(bird_data.m.photos) /\ bird_data.m.photos.s # <<>>
    THEN LET o == open_discovery(tx, user_id, bird_number)
         IN  IF o.tx.err THEN o.tx
             ELSE Done(save_photos(o.tx, o.id, user_id, bird_number, bird_data.m.photos.s))
    ELSE Done(tx)

save_species(tx, user_id, bird_number, bird_data) ==
    IF tx.err THEN tx
    ELSE LET o == open_discovery(tx, user_id, bird_number)
         IN  IF o.tx.err THEN o.tx
             ELSE IF InRaises(bird_data) THEN Raise(o.tx, NotIterable(bird_data))
             ELSE IF HasKey(bird_data, "photos") /\ IsList(bird_data.m.photos)
                  THEN Done(save_photos(o.tx, o.id, user_id, bird_number, bird_data.m.photos.s))
                  ELSE Done(o.tx)

RECURSIVE save_all(_, _, _)
save_all(tx, user_id, items) ==
    IF items = <<>> THEN tx
    ELSE save_all(save_species(tx, user_id, items[1].k, items[1].v), user_id, Tail(items))

\* conn.commit(): the tables after the transaction
Commit(tx) == [discoveries |-> tx.discoveries, photos |-> tx.photos, photo_seq |-> tx.photo_seq]

\* no rollback: what the statements did before the exception stays
KeepPartial(tx) == [discoveries |-> tx.discoveries, photos |-> tx.photos, photo_seq |-> tx.photo_seq]

\* conn.rollback(): the tables as they were committed
Rollback(tx) == [discoveries |-> discoveries, photos |-> photos, photo_seq |-> photo_seq]

\* the light projection forgotten
FullAndMetadataOnly(user_id) == {<<"discoveries_v2", user_id>>, <<"metadata_v2", user_id>>}

\* the metadata projection forgotten
FullAndLightOnly(user_id) == {<<"discoveries_v2", user_id>>, <<"discoveries_light", user_id>>}

\* lines 657-659
SaveInvalidated(user_id) ==
    {<<"discoveries_v2", user_id>>, <<"metadata_v2", user_id>>, <<"discoveries_light", user_id>>}

CacheDelete(keys) == [key \in CacheKeys |-> IF key \in keys THEN Absent ELSE cache[key]]

PresentKeys(user_id) == {key \in CacheKeys : key[2] = user_id /\ cache[key].present}

\* a response, with the parameters of the request it answers (req; of a
\* synchronization, the data when it succeeded), the session it was made
\* with, whether the body was served from the cache, whether the entry
\* served predates a save, and whether the body was recomputed after a
\* save, the request before, had deleted the entry (dropped: the entries
\* a save deleted)
Reply(op, status, req, body) ==
    [op |-> op, status |-> status, user_id |-> session.user_id, req |-> req,
     body |-> body, from_cache |-> FALSE, stale |-> FALSE, after_write |-> FALSE,
     after_evict |-> FALSE, dropped |-> {}]

\* a request that changes nothing
Unchanged(op, status, req, body) ==
    /\ resp' = Reply(op, status, req, body)
    /\ UNCHANGED <<users, discoveries, photos, photo_seq, token_seq, cache, stale, now, session, conns>>

\* line 563: 'user_id' not in session
Authenticated == session.user_id # 0

\* "if data is None"
NoneOnly(data) == data.t = "null"

\* line 570: not data
NoData(data) == ~Truthy(data)

\* what the model records of a request that was refused or failed
Refused(data, processed) == [empty |-> ~Truthy(data), processed |-> processed]

save_discoveries(data, tick_at) ==
    /\ tick_at > 0 => now < MaxClock
    /\ IF ~Authenticated THEN
           Unchanged("save_discoveries", 401, Refused(data, 0), [error |-> "Non authentifie"])
       ELSE IF NoData(data) THEN
           Unchanged("save_discoveries", 400, Refused(data, 0), [error |-> "Aucune donnee"])
       ELSE
           LET user_id == session.user_id
               tx == IF IsDict(data) THEN save_all(Begin(tick_at), user_id, data.items)
                     ELSE Raise(Begin(tick_at), NoItems(data))
               db == IF tx.err THEN Rollback(tx) ELSE Commit(tx)
           IN  /\ ~tx.full
               /\ discoveries' = db.discoveries
               /\ photos' = db.photos
               /\ photo_seq' = db.photo_seq
               /\ now' = IF tick_at > 0 THEN now + 1 ELSE now
               /\ IF tx.err
                  THEN /\ resp' = Reply("save_discoveries", 500, Refused(data, tx.done), [error |-> tx.e])
                       /\ UNCHANGED <<cache, stale>>
                  ELSE /\ resp' = [Reply("save_discoveries", 200, data, [status |-> "success"])
                                     EXCEPT !.dropped = PresentKeys(user_id) \cap SaveInvalidated(user_id)]
                       /\ cache' = CacheDelete(SaveInvalidated(user_id))
                       /\ stale' = (stale \cup PresentKeys(user_id)) \ SaveInvalidated(user_id)
               /\ UNCHANGED <<users, token_seq, session, conns>>

(***************************************************************************)
(* save_discoveries, request by request on connections of their own, as   *)
(* the threaded server runs it. A connection reads the committed tables    *)
(* until its first INSERT, UPDATE or DELETE opens a transaction and takes  *)
(* the write lock of the database file; it then sees its own changes. The  *)
(* lock is held until commit or rollback, and a statement that needs it    *)
(* waits while another connection holds it, up to the connection's         *)
(* timeout of 5 seconds, after which it raises "database is locked".       *)
(***************************************************************************)
Other(r) == CHOOSE q \in Requests : q # r
Locked(r) == conns[r].pc \in {"select", "write", "commit"} /\ conns[r].locked

\* the request is answered without having touched the store
Answered(r, status, data) ==
    [pc |-> "done", status |-> status, error |-> "", user_id |-> session.user_id, data |-> data]

\* lines 562-578: the session, the body, the connection
save_begin(r, data) ==
    /\ conns[r].pc = "idle"
    /\ IF ~Authenticated THEN
           /\ conns' = [conns EXCEPT ![r] = Answered(r, 401, data)]
           /\ resp' = Reply("save_discoveries", 401, Refused(data, 0), [error |-> "Non authentifie"])
       ELSE IF NoData(data) THEN
           /\ conns' = [conns EXCEPT ![r] = Answered(r, 400, data)]
           /\ resp' = Reply("save_discoveries", 400, Refused(data, 0), [error |-> "Aucune donnee"])
       ELSE IF ~IsDict(data) THEN
           /\ conns' = [conns EXCEPT ![r] = Answered(r, 500, data)]
           /\ resp' = Reply("save_discoveries", 500, Refused(data, 0), [error |-> NoItems(data)])
       ELSE
           /\ conns' = [conns EXCEPT ![r] =
                           [pc |-> "select", status |-> 0, user_id |-> session.user_id, data |-> data,
                            i |-> 1, found |-> {}, locked |-> FALSE, tx |-> Null]]
           /\ UNCHANGED resp
    /\ UNCHANGED <<users, discoveries, photos, photo_seq, token_seq, cache, stale, now, session>>

\* lines 582-586: SELECT id FROM discoveries, for item i of the data
save_select(r) ==
    LET c == conns[r]
    IN  /\ c.pc = "select"
        /\ conns' = [conns EXCEPT
                        ![r].found = FindDiscovery(IF c.locked THEN c.tx.discoveries ELSE discoveries,
                                                   c.user_id, c.data.items[c.i].k),
                        ![r].pc = "write"]
        /\ UNCHANGED <<users, discoveries, photos, photo_seq, token_seq, cache, stale, now, session, resp>>

\* lines 608-651: the entries of one item, its discovery opened
save_entries(tx, discovery_id, user_id, bird_number, bird_data) ==
    IF InRaises(bird_data) THEN Raise(tx, NotIterable(bird_data))
    ELSE IF HasKey(bird_data, "photos") /\ IsList(bird_data.m.photos)
         THEN Done(save_photos(tx, discovery_id, user_id, bird_number, bird_data.m.photos.s))
         ELSE Done(tx)

\* lines 588-651 and 663-666: INSERT or UPDATE of the discovery the SELECT
\* found or did not find, DELETE of its photos and INSERT of the entries,
\* under the write lock; an exception rolls back and answers 500
save_write(r) ==
    LET c == conns[r]
        tx0 == IF c.locked THEN c.tx ELSE Begin(0)
        bird_number == c.data.items[c.i].k
        tx1 == IF c.found = {} THEN InsertDiscovery(tx0, c.user_id, bird_number)
               ELSE TouchDiscovery(tx0, CHOOSE i \in c.found : TRUE)
        discovery_id == IF c.found = {} THEN Len(tx1.discoveries) ELSE CHOOSE i \in c.found : TRUE
        tx2 == IF tx1.err THEN tx1
               ELSE save_entries(DeletePhotos(tx1, discovery_id, c.user_id),
                                 discovery_id, c.user_id, bird_number, c.data.items[c.i].v)
    IN  /\ c.pc = "write"
        /\ ~Locked(Other(r))
        /\ ~tx2.full
        /\ IF tx2.err THEN
               /\ conns' = [conns EXCEPT ![r] = [pc |-> "done", status |-> 500, error |-> "raised",
                                                  user_id |-> c.user_id, data |-> c.data]]
               /\ resp' = [Reply("save_discoveries", 500, Refused(c.data, tx2.done), [error |-> tx2.e])
                             EXCEPT !.user_id = c.user_id]
           ELSE
               /\ conns' = [conns EXCEPT
                               ![r].tx = tx2,
                               ![r].locked = TRUE,
                               ![r].i = IF c.i < Len(c.data.items) THEN c.i + 1 ELSE c.i,
                               ![r].pc = IF c.i < Len(c.data.items) THEN "select" ELSE "commit"]
               /\ UNCHANGED resp
        /\ UNCHANGED <<users, discoveries, photos, photo_seq, token_seq, cache, stale, now, session>>

\* the statement has waited 5 seconds for the write lock another
\* connection holds: OperationalError, rollback, 500
save_busy(r) ==
    LET c == conns[r]
    IN  /\ c.pc = "write"
        /\ Locked(Other(r))
        /\ conns' = [conns EXCEPT ![r] = [pc |-> "done", status |-> 500, error |-> "database is locked",
                                           user_id |-> c.user_id, data |-> c.data]]
        /\ resp' = [Reply("save_discoveries", 500, Refused(c.data, c.i - 1), [error |-> DatabaseLocked])
                      EXCEPT !.user_id = c.user_id]
        /\ UNCHANGED <<users, discoveries, photos, photo_seq, token_seq, cache, stale, now, session>>

\* line 653: conn.commit() publishes the transaction and frees the lock;
\* the entries in the cache now predate a committed synchronization
save_commit(r) ==
    LET c == conns[r]
    IN  /\ c.pc = "commit"
        /\ discoveries' = Commit(c.tx).discoveries
        /\ photos' = Commit(c.tx).photos
        /\ photo_seq' = Commit(c.tx).photo_seq
        /\ stale' = stale \cup PresentKeys(c.user_id)
        /\ conns' = [conns EXCEPT ![r] = [pc |-> "invalidate", status |-> 0,
                                           user_id |-> c.user_id, data |-> c.data]]
        /\ UNCHANGED <<users, token_seq, cache, now, session, resp>>

\* lines 657-661: the three cache.delete and the answer
save_invalidate(r) ==
    LET c == conns[r]
    IN  /\ c.pc = "invalidate"
        /\ cache' = CacheDelete(SaveInvalidated(c.user_id))
        /\ stale' = stale \ SaveInvalidated(c.user_id)
        /\ conns' = [conns EXCEPT ![r] = [pc |-> "done", status |-> 200, error |-> "",
                                           user_id |-> c.user_id, data |-> c.data]]
        /\ resp' = [Reply("save_discoveries", 200, c.data, [status |-> "success"])
                      EXCEPT !.user_id = c.user_id,
                             !.dropped = PresentKeys(c.user_id) \cap SaveInvalidated(c.user_id)]
        /\ UNCHANGED <<users, discoveries, photos, photo_seq, token_seq, now, session>>

(***************************************************************************)
(* The read projections                                                    *)
(***************************************************************************)
UserDiscoveries(user_id) == {i \in 1..Len(discoveries) : discoveries[i].user_id = user_id}
BirdsOf(user_id) == {discoveries[i].bird_number : i \in UserDiscoveries(user_id)}
DiscoveryOf(user_id, bird_number) ==
    CHOOSE i \in UserDiscoveries(user_id) : discoveries[i].bird_number = bird_number
PhotosOfDiscovery(discovery_id) == {p \in photos : p.discovery_id = discovery_id}

\* ORDER BY p.created_at: the sorter is stable and the rows are scanned
\* through idx_photos_discovery, so rows of equal created_at come in id order
RECURSIVE OrderByCreated(_)
OrderByCreated(rows) ==
    IF rows = {} THEN <<>>
    ELSE LET first == CHOOSE p \in rows : \A q \in rows :
                          \/ p.created_at < q.created_at
                          \/ (p.created_at = q.created_at /\ p.id <= q.id)
         IN  <<first>> \o OrderByCreated(rows \ {first})

\* the coordinates of a row as the text the store holds
load_coordinates_raw(coordinates) == coordinates

\* lines 534-539: the coordinates of a row, parsed
load_coordinates(coordinates) ==
    IF Truthy(coordinates) /\ IsStr(coordinates)
    THEN IF IsText(coordinates) /\ json_loads(coordinates) # JsonError
         THEN json_loads(coordinates)
         ELSE EmptyStr
    ELSE coordinates

PhotoJson(p) ==
    [id |-> p.id, photo |-> p.photo_data, thumbnail |-> p.photo_thumbnail,
     location |-> p.location, city |-> p.city, region |-> p.region, country |-> p.country,
     coordinates |-> load_coordinates(p.coordinates),
     date |-> p.date, sex |-> p.sex, note |-> p.note]

\* the photos of a discovery, the last stored first
PhotoListNewestFirst(discovery_id) ==
    LET rows == OrderByCreated(PhotosOfDiscovery(discovery_id))
    IN  [i \in 1..Len(rows) |-> PhotoJson(rows[Len(rows) + 1 - i])]

PhotoList(discovery_id) ==
    LET rows == OrderByCreated(PhotosOfDiscovery(discovery_id))
    IN  [i \in 1..Len(rows) |-> PhotoJson(rows[i])]

\* lines 503-553
FullView(user_id) ==
    [bird_num \in BirdsOf(user_id) |->
        [discovered_at |-> discoveries[DiscoveryOf(user_id, bird_num)].discovered_at,
         photos |-> PhotoList(DiscoveryOf(user_id, bird_num))]]

\* lines 797-842
LightView(user_id) ==
    [bird_num \in BirdsOf(user_id) |-> [photos |-> PhotoList(DiscoveryOf(user_id, bird_num))]]

RECURSIVE SumSize(_)
SumSize(rows) ==
    IF rows = {} THEN 0
    ELSE LET p == CHOOSE q \in rows : TRUE IN p.file_size + SumSize(rows \ {p})

\* round(total_size / (1024 * 1024), 2), in hundredths of a MB
RoundMb(bytes) == (bytes * 200 + 1048576) \div 2097152

\* GROUP_CONCAT(p.date): the non-NULL dates joined with ','
RECURSIVE GroupConcat(_)
GroupConcat(rows) ==
    IF rows = <<>> THEN Null
    ELSE LET rest == GroupConcat(Tail(rows))
             d == Head(rows).date
         IN  IF d.t = "null" THEN rest
             ELSE IF rest.t = "null" THEN d
             ELSE Str(d.v \o <<",">> \o rest.v)

\* str.split(',')
RECURSIVE Split(_, _)
Split(toks, cur) ==
    IF toks = <<>> THEN <<Str(cur)>>
    ELSE IF Head(toks) = "," THEN <<Str(cur)>> \o Split(Tail(toks), <<>>)
    ELSE Split(Tail(toks), Append(cur, Head(toks)))

\* the two queries with JOIN in place of LEFT JOIN: a discovery without
\* photo yields no row
MetadataViewInnerJoin(user_id) ==
    LET joined == {p \in photos : p.discovery_id \in UserDiscoveries(user_id)}
        seen == {bird_num \in BirdsOf(user_id) : PhotosOfDiscovery(DiscoveryOf(user_id, bird_num)) # {}}
    IN  [discovered_count |-> Cardinality(seen),
         total_photos |-> Cardinality(joined),
         total_size_mb |-> RoundMb(SumSize(joined)),
         birds |-> [bird_num \in seen |->
            LET rows == PhotosOfDiscovery(DiscoveryOf(user_id, bird_num))
                dates == GroupConcat(OrderByCreated(rows))
            IN  [photo_count |-> Cardinality(rows),
                 dates |-> IF Truthy(dates) THEN Split(dates.v, <<>>) ELSE <<>>,
                 has_gps |-> \E p \in rows : p.coordinates.t # "null" /\ p.coordinates # EmptyStr]]]

\* lines 690-726
MetadataView(user_id) ==
    LET joined == {p \in photos : p.discovery_id \in UserDiscoveries(user_id)}
    IN  [discovered_count |-> Cardinality(BirdsOf(user_id)),
         total_photos |-> Cardinality(joined),
         total_size_mb |-> RoundMb(SumSize(joined)),
         birds |-> [bird_num \in BirdsOf(user_id) |->
            LET rows == PhotosOfDiscovery(DiscoveryOf(user_id, bird_num))
                dates == GroupConcat(OrderByCreated(rows))
            IN  [photo_count |-> Cardinality(rows),
                 dates |-> IF Truthy(dates) THEN Split(dates.v, <<>>) ELSE <<>>,
                 has_gps |-> \E p \in rows : p.coordinates.t # "null" /\ p.coordinates # EmptyStr]]]

\* cache.get(key) followed by "if cached": an empty projection is not served
CacheHit(key) == cache[key].present /\ DOMAIN cache[key].val # {}

\* the step of the cache that removed the entry of a key
Evicted(key) == [op |-> "expire", status |-> 0, dropped |-> {}, key |-> key]

\* a miss is answered with an empty projection, the store not read
CachedReadNoFallback(op, prefix, result) ==
    IF session.user_id = 0 THEN
        /\ resp' = Reply(op, 401, <<>>, [error |-> "Non authentifie"])
        /\ UNCHANGED <<users, discoveries, photos, photo_seq, token_seq, cache, stale, now, session, conns>>
    ELSE LET key == <<prefix, session.user_id>>
         IN  IF CacheHit(key) THEN
                 /\ resp' = [Reply(op, 200, <<>>, cache[key].val) EXCEPT
                                !.from_cache = TRUE, !.stale = (key \in stale)]
                 /\ UNCHANGED <<users, discoveries, photos, photo_seq, token_seq, cache, stale, now, session, conns>>
             ELSE
                 /\ resp' = Reply(op, 200, <<>>, <<>>)
                 /\ UNCHANGED <<users, discoveries, photos, photo_seq, token_seq, cache, stale, now, session, conns>>

\* the cached reads: get_discoveries, discoveries_metadata, get_discoveries_light
CachedRead(op, prefix, result) ==
    IF session.user_id = 0 THEN
        /\ resp' = Reply(op, 401, <<>>, [error |-> "Non authentifie"])
        /\ UNCHANGED <<users, discoveries, photos, photo_seq, token_seq, cache, stale, now, session, conns>>
    ELSE LET key == <<prefix, session.user_id>>
         IN  IF CacheHit(key) THEN
                 /\ resp' = [Reply(op, 200, <<>>, cache[key].val) EXCEPT
                                !.from_cache = TRUE, !.stale = (key \in stale)]
                 /\ UNCHANGED <<users, discoveries, photos, photo_seq, token_seq, cache, stale, now, session, conns>>
             ELSE
                 /\ cache' = [cache EXCEPT ![key] = Entry(result)]
                 /\ stale' = stale \ {key}
                 /\ resp' = [Reply(op, 200, <<>>, result) EXCEPT
                                !.after_write = (key \in resp.dropped),
                                !.after_evict = (resp = Evicted(key))]
                 /\ UNCHANGED <<users, discoveries, photos, photo_seq, token_seq, now, session, conns>>

get_discoveries == CachedRead("get_discoveries", "discoveries_v2", FullView(session.user_id))

discoveries_metadata == CachedRead("discoveries_metadata", "metadata_v2", MetadataView(session.user_id))

get_discoveries_light == CachedRead("get_discoveries_light", "discoveries_light", LightView(session.user_id))

(***************************************************************************)
(* The cached reads, request by request, as the threaded server runs them *)
(* next to a synchronization: cache.get, then on a miss the query on a    *)
(* connection of its own, which sees the committed tables, then cache.set *)
(* of what the query returned and the answer. SimpleCache is one          *)
(* dictionary of the process, shared by the threads.                      *)
(***************************************************************************)
\* cache.get(cache_key) and "if cached"
read_get(r, op, prefix) ==
    /\ conns[r].pc = "idle"
    /\ IF ~Authenticated THEN
           /\ conns' = [conns EXCEPT ![r] = Answered(r, 401, Null)]
           /\ resp' = Reply(op, 401, <<>>, [error |-> "Non authentifie"])
       ELSE IF CacheHit(<<prefix, session.user_id>>) THEN
           /\ conns' = [conns EXCEPT ![r] = Answered(r, 200, Null)]
           /\ resp' = [Reply(op, 200, <<>>, cache[<<prefix, session.user_id>>].val) EXCEPT
                          !.from_cache = TRUE, !.stale = (<<prefix, session.user_id>> \in stale)]
       ELSE
           /\ conns' = [conns EXCEPT ![r] =
                           [pc |-> "query", status |-> 0, user_id |-> session.user_id,
                            op |-> op, key |-> <<prefix, session.user_id>>, result |-> Null]]
           /\ UNCHANGED resp
    /\ UNCHANGED <<users, discoveries, photos, photo_seq, token_seq, cache, stale, now, session>>

\* READ UNCOMMITTED: the SELECT sees the rows of the transaction another
\* connection has open
read_query_uncommitted(r) ==
    LET c == conns[r]
        o == conns[Other(r)]
        dirty == Locked(Other(r))
        d == IF dirty THEN o.tx.discoveries ELSE discoveries
        ph == IF dirty THEN o.tx.photos ELSE photos
        mine == {i \in 1..Len(d) : d[i].user_id = c.user_id}
        seen == [bird_num \in {d[i].bird_number : i \in mine} |->
                    LET id == CHOOSE i \in mine : d[i].bird_number = bird_num
                        rows == OrderByCreated({p \in ph : p.discovery_id = id})
                    IN  [discovered_at |-> d[id].discovered_at,
                         photos |-> [i \in 1..Len(rows) |-> PhotoJson(rows[i])]]]
    IN  /\ c.pc = "query"
        /\ conns' = [conns EXCEPT
                        ![r].pc = IF c.op = "discoveries_metadata" THEN "birds" ELSE "set",
                        ![r].result = IF c.op = "discoveries_metadata"
                                      THEN MetadataView(c.user_id) ELSE seen]
        /\ UNCHANGED <<users, discoveries, photos, photo_seq, token_seq, cache, stale, now, session, resp>>

\* the SELECT of the view, which sees the committed tables as they are
\* while it runs, and the loop that builds the result; of the metadata,
\* the first SELECT, of the totals (lines 691-699)
read_query(r) ==
    LET c == conns[r]
        result == CASE c.op = "get_discoveries" -> FullView(c.user_id)
                    [] c.op = "discoveries_metadata" -> MetadataView(c.user_id)
                    [] c.op = "get_discoveries_light" -> LightView(c.user_id)
    IN  /\ c.pc = "query"
        /\ conns' = [conns EXCEPT
                        ![r].pc = IF c.op = "discoveries_metadata" THEN "birds" ELSE "set",
                        ![r].result = result]
        /\ UNCHANGED <<users, discoveries, photos, photo_seq, token_seq, cache, stale, now, session, resp>>

\* lines 702-726: the second SELECT of the metadata, of the species, on
\* the same connection with no transaction around the two
read_birds(r) ==
    LET c == conns[r]
    IN  /\ c.pc = "birds"
        /\ conns' = [conns EXCEPT ![r].pc = "set",
                                  ![r].result.birds = MetadataView(c.user_id).birds]
        /\ UNCHANGED <<users, discoveries, photos, photo_seq, token_seq, cache, stale, now, session, resp>>

\* cache.set(cache_key, result, timeout=300) and the answer; the entry
\* predates a synchronization when one was committed since the query
read_set(r) ==
    LET c == conns[r]
        current == CASE c.op = "get_discoveries" -> FullView(c.user_id)
                     [] c.op = "discoveries_metadata" -> MetadataView(c.user_id)
                     [] c.op = "get_discoveries_light" -> LightView(c.user_id)
    IN  /\ c.pc = "set"
        /\ cache' = [cache EXCEPT ![c.key] = Entry(c.result)]
        /\ stale' = IF c.result = current THEN stale \ {c.key} ELSE stale \cup {c.key}
        /\ conns' = [conns EXCEPT ![r] = [pc |-> "done", status |-> 200, error |-> "",
                                           user_id |-> c.user_id, data |-> Null]]
        /\ resp' = [Reply(c.op, 200, <<>>, c.result) EXCEPT !.user_id = c.user_id]
        /\ UNCHANGED <<users, discoveries, photos, photo_seq, token_seq, now, session>>


\* ORDER BY p.created_at DESC: rows of equal created_at come in the order of
\* the scan of idx_photos_user_bird, by bird_number and then id
RECURSIVE OrderByCreatedDesc(_)
OrderByCreatedDesc(rows) ==
    IF rows = {} THEN <<>>
    ELSE LET first == CHOOSE p \in rows : \A q \in rows :
                          \/ p.created_at > q.created_at
                          \/ /\ p.created_at = q.created_at
                             /\ \/ (p.bird_number = "0001" /\ q.bird_number = "0002")
                                \/ (p.bird_number = q.bird_number /\ p.id <= q.id)
         IN  <<first>> \o OrderByCreatedDesc(rows \ {first})

Min2(a, b) == IF a <= b THEN a ELSE b

\* OFFSET page * per_page: the first page starts after per_page photos
GalleryViewOffByOne(user_id, page, per_page) ==
    LET rows == OrderByCreatedDesc({p \in photos : p.user_id = user_id})
        total == Len(rows)
        offset == page * per_page
        shown == SubSeq(rows, offset + 1, Min2(total, offset + per_page))
    IN  [photos |-> [i \in 1..Len(shown) |->
                        [id |-> shown[i].id, bird_number |-> shown[i].bird_number,
                         photo_thumbnail |-> shown[i].photo_thumbnail, date |-> shown[i].date,
                         location |-> shown[i].location, city |-> shown[i].city]],
         total |-> total, page |-> page, per_page |-> per_page,
         total_pages |-> (total + per_page - 1) \div per_page]

\* lines 743-778
GalleryView(user_id, page, per_page) ==
    LET rows == OrderByCreatedDesc({p \in photos : p.user_id = user_id})
        total == Len(rows)
        offset == (page - 1) * per_page
        shown == SubSeq(rows, offset + 1, Min2(total, offset + per_page))
    IN  [photos |-> [i \in 1..Len(shown) |->
                        [id |-> shown[i].id, bird_number |-> shown[i].bird_number,
                         photo_thumbnail |-> shown[i].photo_thumbnail, date |-> shown[i].date,
                         location |-> shown[i].location, city |-> shown[i].city]],
         total |-> total, page |-> page, per_page |-> per_page,
         total_pages |-> (total + per_page - 1) \div per_page]

\* the gallery keeping its last page in the cache, under the key of the light view
discoveries_gallery_storing(page, per_page) ==
    IF session.user_id = 0
    THEN Unchanged("discoveries_gallery", 401, <<page, per_page>>, [error |-> "Non authentifie"])
    ELSE /\ cache' = [cache EXCEPT ![<<"discoveries_light", session.user_id>>] =
                          Entry(GalleryView(session.user_id, page, per_page))]
         /\ resp' = Reply("discoveries_gallery", 200, <<page, per_page>>,
                          GalleryView(session.user_id, page, per_page))
         /\ UNCHANGED <<users, discoveries, photos, photo_seq, token_seq, stale, now, session, conns>>

\* lines 737-778
discoveries_gallery(page, per_page) ==
    IF session.user_id = 0
    THEN Unchanged("discoveries_gallery", 401, <<page, per_page>>, [error |-> "Non authentifie"])
    ELSE Unchanged("discoveries_gallery", 200, <<page, per_page>>,
                   GalleryView(session.user_id, page, per_page))

\* lines 847-868
get_photo(bird_number, photo_id) ==
    IF session.user_id = 0
    THEN Unchanged("get_photo", 401, <<bird_number, photo_id>>, [error |-> "Non authentifie"])
    ELSE LET found == {p \in photos : /\ p.id = photo_id
                                      /\ p.user_id = session.user_id
                                      /\ p.bird_number = bird_number}
         IN  IF found = {}
             THEN Unchanged("get_photo", 404, <<bird_number, photo_id>>, [error |-> "Photo non trouvee"])
             ELSE Unchanged("get_photo", 200, <<bird_number, photo_id>>,
                            [photo |-> (CHOOSE p \in found : TRUE).photo_data])

(***************************************************************************)
(* Sharing                                                                 *)
(***************************************************************************)
\* a generator that returns again the token it returned last
uuid4Repeated == Max2(token_seq, 1)

\* str(uuid.uuid4()): a token that was never handed out before
uuid4 == token_seq + 1

SetShareToken(user_id, token) == [users EXCEPT ![user_id].share_token = token]

get_share_token ==
    IF session.user_id = 0
    THEN Unchanged("get_share_token", 401, <<>>, [error |-> "Non authentifie"])
    ELSE IF users[session.user_id].share_token = 0 THEN
        /\ token_seq < MaxToken
        /\ users' = SetShareToken(session.user_id, uuid4)
        /\ token_seq' = uuid4
        /\ resp' = Reply("get_share_token", 200, <<>>, [share_token |-> uuid4])
        /\ UNCHANGED <<discoveries, photos, photo_seq, cache, stale, now, session, conns>>
    ELSE Unchanged("get_share_token", 200, <<>>, [share_token |-> users[session.user_id].share_token])

regenerate_share_token ==
    IF session.user_id = 0
    THEN Unchanged("regenerate_share_token", 401, <<>>, [error |-> "Non authentifie"])
    ELSE
        /\ token_seq < MaxToken
        /\ users' = SetShareToken(session.user_id, uuid4)
        /\ token_seq' = uuid4
        /\ resp' = Reply("regenerate_share_token", 200, <<>>, [share_token |-> uuid4])
        /\ UNCHANGED <<discoveries, photos, photo_seq, cache, stale, now, session, conns>>

\* lines 976-1018: the photos of a shared profile ("if row['photo_data']")
SharedPhotoJson(p) ==
    [photo |-> p.photo_data, location |-> p.location, city |-> p.city, region |-> p.region,
     country |-> p.country, coordinates |-> load_coordinates(p.coordinates),
     date |-> p.date, sex |-> p.sex, note |-> p.note]

SharedView(user_id) ==
    LET data == [bird_num \in BirdsOf(user_id) |->
                    LET rows == SelectSeq(OrderByCreated(PhotosOfDiscovery(DiscoveryOf(user_id, bird_num))),
                                          LAMBDA p : Truthy(p.photo_data))
                    IN  [photos |-> [i \in 1..Len(rows) |-> SharedPhotoJson(rows[i])]]]
    IN  [username |-> users[user_id].username,
         discovered_count |-> Cardinality(DOMAIN data),
         total_photos |-> Cardinality({p \in photos : p.discovery_id \in UserDiscoveries(user_id)
                                                       /\ Truthy(p.photo_data)}),
         discoveries |-> data]

\* WHERE share_token IS NOT NULL
AnySharedUser(token) == {i \in 1..Len(users) : users[i].share_token # 0}

\* SELECT ... FROM users WHERE share_token = ?
UsersWithToken(token) == {i \in 1..Len(users) : users[i].share_token = token}

get_shared_profile(token) ==
    IF UsersWithToken(token) = {}
    THEN Unchanged("get_shared_profile", 404, token, [error |-> "Profil non trouve"])
    ELSE Unchanged("get_shared_profile", 200, token,
                   SharedView(CHOOSE i \in UsersWithToken(token) : TRUE))

(***************************************************************************)
(* Authentication                                                          *)
(***************************************************************************)
RECURSIVE StrLen(_)
StrLen(toks) == IF toks = <<>> THEN 0 ELSE Len(Head(toks)) + StrLen(Tail(toks))

\* username without its UNIQUE constraint
UsersNamedNone(username) == {}

\* line 96: username TEXT UNIQUE NOT NULL
UsersNamed(username) == {i \in 1..Len(users) : users[i].username = username}

register(name, password) ==
    LET username == sanitize_input(name)
    IN  IF ~Truthy(username) \/ password = "" THEN
            Unchanged("register", 400, <<name, password>>, [error |-> "Username et password requis"])
        ELSE IF StrLen(username.v) < 3 THEN
            Unchanged("register", 400, <<name, password>>, [error |-> "Username trop court"])
        ELSE IF Len(password) < 6 THEN
            Unchanged("register", 400, <<name, password>>, [error |-> "Mot de passe trop court"])
        ELSE IF UsersNamed(username) # {} THEN
            \* sqlite3.IntegrityError: username is UNIQUE
            Unchanged("register", 400, <<name, password>>, [error |-> "Ce nom d'utilisateur existe deja"])
        ELSE
            /\ Len(users) < MaxUsers
            /\ users' = Append(users, [username |-> username, password_hash |-> hash_password(password),
                                       is_admin |-> 0, share_token |-> 0])
            /\ session' = [user_id |-> Len(users) + 1, username |-> username]
            /\ resp' = [Reply("register", 200, <<name, password>>, [success |-> TRUE, username |-> username])
                           EXCEPT !.user_id = Len(users) + 1]
            /\ UNCHANGED <<discoveries, photos, photo_seq, token_seq, cache, stale, now, conns>>

login(name, password) ==
    LET username == sanitize_input(name)
        found == {i \in 1..Len(users) : /\ users[i].username = username
                                        /\ users[i].password_hash = hash_password(password)}
    IN  IF ~Truthy(username) \/ password = "" THEN
            Unchanged("login", 400, <<name, password>>, [error |-> "Username et password requis"])
        ELSE IF found = {} THEN
            Unchanged("login", 401, <<name, password>>, [error |-> "Identifiants incorrects"])
        ELSE LET id == CHOOSE i \in found : TRUE
             IN  /\ session' = [user_id |-> id, username |-> users[id].username]
                 /\ resp' = [Reply("login", 200, <<name, password>>,
                                   [success |-> TRUE, username |-> users[id].username])
                                EXCEPT !.user_id = id]
                 /\ UNCHANGED <<users, discoveries, photos, photo_seq, token_seq, cache, stale, now, conns>>

logout ==
    /\ session' = NoSession
    /\ resp' = [Reply("logout", 200, <<>>, [success |-> TRUE]) EXCEPT !.user_id = 0]
    /\ UNCHANGED <<users, discoveries, photos, photo_seq, token_seq, cache, stale, now, conns>>

\* lines 1145-1187: a user changes their own password
change_password(current_password, new_password) ==
    IF session.user_id = 0 THEN
        Unchanged("change_password", 401, <<current_password, new_password>>, [error |-> "Non authentifie"])
    ELSE IF current_password = "" \/ new_password = "" THEN
        Unchanged("change_password", 400, <<current_password, new_password>>,
                  [error |-> "Mot de passe actuel et nouveau requis"])
    ELSE IF Len(new_password) < 6 THEN
        Unchanged("change_password", 400, <<current_password, new_password>>,
                  [error |-> "Nouveau mot de passe trop court"])
    ELSE IF hash_password(current_password) # users[session.user_id].password_hash THEN
        Unchanged("change_password", 401, <<current_password, new_password>>,
                  [error |-> "Mot de passe actuel incorrect"])
    ELSE
        /\ users' = [users EXCEPT ![session.user_id].password_hash = hash_password(new_password)]
        /\ resp' = Reply("change_password", 200, <<current_password, new_password>>, [status |-> "success"])
        /\ UNCHANGED <<discoveries, photos, photo_seq, token_seq, cache, stale, now, session, conns>>

(***************************************************************************)
(* Administration                                                          *)
(***************************************************************************)
\* the admin flag not looked at: any session of a user passes
IsAdminUnchecked == session.user_id \in 1..Len(users)

\* lines 1042-1045: the session's user has the admin flag
IsAdmin == session.user_id \in 1..Len(users) /\ users[session.user_id].is_admin # 0

\* an INTEGER of a row, as JSON
Integer(n) == [t |-> "int", v |-> n]

\* lines 1058-1068: one row of the GROUP BY u.id over users LEFT JOIN
\* discoveries ON u.id = d.user_id LEFT JOIN photos ON u.id = p.user_id.
\* The join has a row for each pair of a discovery and a photo of the
\* user, the discovery or the photo NULL when the user has none:
\* COUNT(DISTINCT d.id) counts the discoveries, COUNT(p.id) and
\* SUM(p.file_size) run over the pairs
UserStats(user_id) ==
    LET ds == UserDiscoveries(user_id)
        ps == {p \in photos : p.user_id = user_id}
        copies == IF ds = {} THEN 1 ELSE Cardinality(ds)
    IN  [id |-> user_id, username |-> users[user_id].username,
         discoveries_count |-> Cardinality(ds),
         photos_count |-> copies * Cardinality(ps),
         storage_used |-> IF ps = {} THEN Null ELSE Integer(copies * SumSize(ps))]

\* lines 1049-1077; the users list is modelled without its order
AdminStatsView ==
    [total_users |-> Len(users),
     total_discoveries |-> Len(discoveries),
     total_photos |-> Cardinality(photos),
     storage_mb |-> RoundMb(SumSize(photos)),
     users |-> {UserStats(user_id) : user_id \in 1..Len(users)}]

get_admin_stats ==
    IF session.user_id = 0 THEN Unchanged("get_admin_stats", 401, <<>>, [error |-> "Non authentifie"])
    ELSE IF ~IsAdmin THEN Unchanged("get_admin_stats", 403, <<>>, [error |-> "Acces refuse - Admin requis"])
    ELSE Unchanged("get_admin_stats", 200, <<>>, AdminStatsView)

\* lines 1079-1098: UPDATE users SET is_admin = 1 WHERE id = ?, which
\* changes no row when no user has the id
promote_user(user_id) ==
    IF session.user_id = 0 THEN Unchanged("promote_user", 401, <<user_id>>, [error |-> "Non authentifie"])
    ELSE IF ~IsAdmin THEN Unchanged("promote_user", 403, <<user_id>>, [error |-> "Acces refuse - Admin requis"])
    ELSE
        /\ users' = IF user_id \in 1..Len(users) THEN [users EXCEPT ![user_id].is_admin = 1] ELSE users
        /\ resp' = Reply("promote_user", 200, <<user_id>>, [status |-> "success"])
        /\ UNCHANGED <<discoveries, photos, photo_seq, token_seq, cache, stale, now, session, conns>>

\* lines 1100-1143; temp_password is secrets.token_urlsafe(12), any text
\* of 16 characters
admin_reset_password(user_id, temp_password) ==
    IF session.user_id = 0 THEN
        Unchanged("admin_reset_password", 401, <<user_id>>, [error |-> "Non authentifie"])
    ELSE IF ~IsAdmin THEN
        Unchanged("admin_reset_password", 403, <<user_id>>, [error |-> "Acces refuse - Admin requis"])
    ELSE IF user_id \notin 1..Len(users) THEN
        Unchanged("admin_reset_password", 404, <<user_id>>, [error |-> "Utilisateur non trouve"])
    ELSE
        /\ users' = [users EXCEPT ![user_id].password_hash = hash_password(temp_password)]
        /\ resp' = Reply("admin_reset_password", 200, <<user_id>>,
                         [status |-> "success", username |-> users[user_id].username,
                          temporary_password |-> temp_password])
        /\ UNCHANGED <<discoveries, photos, photo_seq, token_seq, cache, stale, now, session, conns>>


(***************************************************************************)
(* migrate_from_old: old is the content of ornithedex.db when the request  *)
(* is made, [exists, rows], rows[user_id] the JSON of the user's row or    *)
(* Null when the user has none.                                            *)
(***************************************************************************)
migrate_photo(tx, discovery_id, user_id, bird_number, photo) ==
    IF tx.err THEN tx
    ELSE IF InRaises(photo) THEN Raise(tx, NotIterable(photo))
    ELSE IF HasKey(photo, "photo") /\ Truthy(photo.m.photo)
    THEN LET compressed == compress_image(photo.m.photo)
         IN  InsertPhoto(tx, discovery_id, user_id, bird_number,
                         compressed.full, compressed.thumbnail, compressed.size,
                         [f \in TextFields |-> Get(photo, f)], Get(photo, "coordinates"))
    ELSE tx

RECURSIVE migrate_photos(_, _, _, _, _)
migrate_photos(tx, discovery_id, user_id, bird_number, list) ==
    IF list = <<>> THEN tx
    ELSE migrate_photos(migrate_photo(tx, discovery_id, user_id, bird_number, Head(list)),
                        discovery_id, user_id, bird_number, Tail(list))

\* the discovery id taken from lastrowid, which INSERT OR IGNORE leaves at
\* the last row inserted when it ignores the row
migrate_species_lastrowid(tx, user_id, bird_number, bird_data) ==
    IF tx.err THEN tx
    ELSE LET found == FindDiscovery(tx.discoveries, user_id, bird_number)
             tx1 == IF found = {} THEN InsertDiscovery(tx, user_id, bird_number) ELSE tx
             discovery_id == Len(tx1.discoveries)
         IN  IF InRaises(bird_data) THEN Raise(tx1, NotIterable(bird_data))
             ELSE IF ~HasKey(bird_data, "photos") THEN tx1
             ELSE IF IsList(bird_data.m.photos)
                  THEN migrate_photos(tx1, discovery_id, user_id, bird_number, bird_data.m.photos.s)
                  ELSE IF InRaises(bird_data.m.photos) THEN Raise(tx1, ObjectNotIterable(bird_data.m.photos)) ELSE tx1

\* lines 1383-1420: INSERT OR IGNORE, then the photos, nothing is deleted
migrate_species(tx, user_id, bird_number, bird_data) ==
    IF tx.err THEN tx
    ELSE LET found == FindDiscovery(tx.discoveries, user_id, bird_number)
             tx1 == IF found = {} THEN InsertDiscovery(tx, user_id, bird_number) ELSE tx
             discovery_id == CHOOSE i \in FindDiscovery(tx1.discoveries, user_id, bird_number) : TRUE
         IN  IF InRaises(bird_data) THEN Raise(tx1, NotIterable(bird_data))
             ELSE IF ~HasKey(bird_data, "photos") THEN tx1
             ELSE IF IsList(bird_data.m.photos)
                  THEN migrate_photos(tx1, discovery_id, user_id, bird_number, bird_data.m.photos.s)
                  ELSE IF InRaises(bird_data.m.photos) THEN Raise(tx1, ObjectNotIterable(bird_data.m.photos)) ELSE tx1

RECURSIVE migrate_all(_, _, _)
migrate_all(tx, user_id, items) ==
    IF items = <<>> THEN tx
    ELSE migrate_all(migrate_species(tx, user_id, items[1].k, items[1].v), user_id, Tail(items))

\* lines 1427-1428
MigrateInvalidated(user_id) == {<<"discoveries_v2", user_id>>, <<"metadata_v2", user_id>>}

migrate_from_old(old, tick_at) ==
    /\ tick_at > 0 => now < MaxClock
    /\ IF session.user_id = 0 THEN
           Unchanged("migrate_from_old", 401, <<>>, [error |-> "Non authentifie"])
       ELSE IF ~old.exists THEN
           Unchanged("migrate_from_old", 404, <<>>, [error |-> "Ancienne base de donnees introuvable"])
       ELSE IF old.rows[session.user_id].t = "null" THEN
           Unchanged("migrate_from_old", 200, <<>>, [message |-> "Aucune donnee a migrer"])
       ELSE
           LET user_id == session.user_id
               old_data == old.rows[user_id]
               tx == IF IsDict(old_data) THEN migrate_all(Begin(tick_at), user_id, old_data.items)
                     ELSE Raise(Begin(tick_at), NoItems(old_data))
               \* on an exception nothing is committed and the connection is dropped
               db == IF tx.err THEN Rollback(tx) ELSE Commit(tx)
           IN  /\ ~tx.full
               /\ discoveries' = db.discoveries
               /\ photos' = db.photos
               /\ photo_seq' = db.photo_seq
               /\ now' = IF tick_at > 0 THEN now + 1 ELSE now
               /\ IF tx.err
                  THEN /\ resp' = Reply("migrate_from_old", 500, <<>>, [error |-> tx.e])
                       /\ UNCHANGED <<cache, stale>>
                  ELSE /\ resp' = Reply("migrate_from_old", 200, <<>>,
                                        [status |-> "success", migrated_photos |-> tx.n])
                       /\ cache' = CacheDelete(MigrateInvalidated(user_id))
                       /\ stale' = stale \ MigrateInvalidated(user_id)
               /\ UNCHANGED <<users, token_seq, session, conns>>

(***************************************************************************)
(* The environment: the clock and the cache (TTL expiry, eviction)         *)
(***************************************************************************)
Tick ==
    /\ now < MaxClock
    /\ now' = now + 1
    /\ resp' = NoResp
    /\ UNCHANGED <<users, discoveries, photos, photo_seq, token_seq, cache, stale, session, conns>>

CacheExpire(key) ==
    /\ cache[key].present
    /\ cache' = [cache EXCEPT ![key] = Absent]
    /\ stale' = stale \ {key}
    /\ resp' = Evicted(key)
    /\ UNCHANGED <<users, discoveries, photos, photo_seq, token_seq, now, session, conns>>


(***************************************************************************)
(* The requests the clients make                                           *)
(***************************************************************************)
imgA == ImageStr("data:image/png;base64,", "A", 1200, 900, 0)
imgC == ImageStr(DefaultHeader, "C", 800, 600, 85)
thumbC == ImageStr(DefaultHeader, "C", 200, 150, 75)

\* a new photo, an already compressed photo sent back with its id, an entry
\* with an empty photo, one without photo, one with a field sqlite3 cannot
\* bind, and an entry that is not a mapping
eNew == Obj([photo |-> imgA, location |-> Str(<<"<b>", "Parc", "</b>">>),
             coordinates |-> Obj([lat |-> "45.1", lng |-> "5.2"]), date |-> Str(<<"2024-05-01">>)])
eOld == Obj([id |-> Num("7"), photo |-> imgC, thumbnail |-> thumbC, location |-> Str(<<"Lac">>)])
eEmpty == Obj([photo |-> EmptyStr, note |-> Str(<<"vide">>)])
eNoPhoto == Obj([location |-> Str(<<"Parc">>)])
eBadField == Obj([photo |-> imgA, location |-> Obj([a |-> "1"])])
eNonDict == Num("5")

\* an entry sent back with the id of the first photo stored, its payload
\* not compressed and without thumbnail; a new entry whose payload is not
\* an image, with coordinates that are not JSON; a new entry with a bare
\* payload that is not an image and an empty mapping of coordinates
eRaw == Obj([id |-> Num("1"), photo |-> imgA, coordinates |-> Obj([lat |-> "45.1"])])
eBroken == Obj([photo |-> Str(<<"data:image/png;base64,", "AAAA">>), coordinates |-> Str(<<"45.1;5.2">>),
                note |-> Str(<<"flou">>)])
eBare == Obj([photo |-> Str(<<"AAAA">>), coordinates |-> EmptyObj])

PhotoLists ==
    {<<>>, <<eNew>>, <<eNew, eOld>>, <<eEmpty, eNew>>, <<eNoPhoto>>, <<eNew, eBadField>>, <<eNonDict>>}

BirdRecords ==
    {Obj([photos |-> Arr(l)]) : l \in PhotoLists}
        \cup {EmptyObj, Obj([photos |-> Str(<<"aucune">>)]), Null}

SecondRecords == {Obj([photos |-> Arr(<<>>)]), Obj([photos |-> Arr(<<eOld>>)]), Null}

Snapshots ==
    {Items(<<[k |-> "0001", v |-> v]>>) : v \in BirdRecords}
        \cup {Items(<<[k |-> "0002", v |-> v]>>) : v \in SecondRecords}
        \cup {Items(<<[k |-> ks[1], v |-> Obj([photos |-> Arr(<<eNew>>)])], [k |-> ks[2], v |-> v2]>>) :
                 ks \in {<<"0001", "0002">>, <<"0002", "0001">>},
                 v2 \in {Obj([photos |-> Arr(<<>>)]), Null}}
        \cup {Null, Items(<<>>), Arr(<<eNew>>)}

TickAts == {0, 1}

legacy == Obj([photo |-> imgA, note |-> Str(<<"<b>", "nid", "</b>">>), coordinates |-> Str(<<"45.1;5.2">>)])

NoOldDb == [exists |-> FALSE, rows |-> [u \in UserIds |-> Null]]
OldDbs ==
    {NoOldDb,
     [exists |-> TRUE,
      rows |-> [u \in UserIds |->
                  IF u = 1 THEN Items(<<[k |-> "0001", v |-> Obj([photos |-> Arr(<<legacy>>)])]>>)
                  ELSE IF u = 2 THEN Items(<<[k |-> "0002", v |-> Obj([photos |-> Arr(<<legacy, eNonDict>>)])]>>)
                  ELSE Null]]}

Usernames == {Str(<<"admin">>), Str(<<"bob">>), Str(<<"<b>", "bob", "</b>">>), Str(<<"al">>), EmptyStr}
Passwords == {"policebox2025#", "secret1", "abc"}

(***************************************************************************)
(* init_db: the admin account is the only row                              *)
(***************************************************************************)
Init ==
    /\ users = <<[username |-> Str(<<"admin">>), password_hash |-> hash_password("policebox2025#"),
                  is_admin |-> 1, share_token |-> 0]>>
    /\ discoveries = <<>>
    /\ photos = {}
    /\ photo_seq = 0
    /\ token_seq = 0
    /\ cache = [key \in CacheKeys |-> Absent]
    /\ stale = {}
    /\ now = 0
    /\ session = NoSession
    /\ conns = [r \in Requests |-> Idle]
    /\ resp = NoResp

AdminName == Str(<<"admin">>)

\* the step keeps the photo ids within FewPhotoIds
Few == photo_seq' <= FewPhotoIds


\* One client and the admin account, the clock stopped: synchronization,
\* the cached reads, the migration and the cache.
Next ==
    \/ \E password \in Passwords : login(AdminName, password)
    \/ logout
    \/ \E data \in Snapshots : save_discoveries(data, 0) /\ Few
    \/ get_discoveries
    \/ discoveries_metadata
    \/ get_discoveries_light
    \/ \E old \in OldDbs : migrate_from_old(old, 0) /\ Few
    \/ \E key \in CacheKeys : CacheExpire(key)

Spec == Init /\ [][Next]_vars

\* One client and the admin account, the clock running (between requests
\* and during a request).
ClockLists == {<<>>, <<eNew, eOld>>, <<eOld, eNew>>, <<eNew, eNoPhoto, eOld>>, <<eEmpty, eNew>>}

ClockSnapshots ==
    {Items(<<[k |-> "0001", v |-> Obj([photos |-> Arr(l)])]>>) : l \in ClockLists}
        \cup {Items(<<[k |-> "0002", v |-> Obj([photos |-> Arr(<<eNew>>)])]>>)}

NextClock ==
    \/ login(AdminName, "policebox2025#")
    \/ \E data \in ClockSnapshots, tick_at \in TickAts : save_discoveries(data, tick_at)
    \/ get_discoveries
    \/ get_discoveries_light
    \/ Tick

SpecClock == Init /\ [][NextClock]_vars

\* Several accounts: registration, sharing and every read, with a few
\* synchronizations to fill the store. The metadata and the light
\* projection are read by clients without a session only; the two
\* specifications above have their reads by the owner.
FewSnapshots ==
    {Items(<<[k |-> "0001", v |-> Obj([photos |-> Arr(<<eNew>>)])]>>),
     Items(<<[k |-> "0002", v |-> Obj([photos |-> Arr(<<eOld>>)])]>>)}

NextUsers ==
    \/ \E name \in Usernames : register(name, "secret1")
    \/ register(Str(<<"bob">>), "abc")
    \/ login(AdminName, "policebox2025#")
    \/ \E name \in {AdminName, Str(<<"bob">>)} : login(name, "secret1")
    \/ logout
    \/ \E data \in FewSnapshots : save_discoveries(data, 0) /\ Few
    \/ get_discoveries
    \/ ~Authenticated /\ discoveries_metadata
    \/ \E page \in 1..2 : discoveries_gallery(page, 1)
    \/ ~Authenticated /\ get_discoveries_light
    \/ \E bird_number \in Species : get_photo(bird_number, 1)
    \/ get_share_token
    \/ regenerate_share_token
    \/ \E token \in Tokens : get_shared_profile(token)

SpecUsers == Init /\ [][NextUsers]_vars

\* One client and the admin account: what a synchronization stores of
\* each field of an entry and what the full and the light read return.
FieldLists == {<<eNew>>, <<eRaw>>, <<eNew, eRaw>>, <<eBroken, eOld>>, <<eBare>>}

FieldSnapshots == {Items(<<[k |-> "0001", v |-> Obj([photos |-> Arr(l)])]>>) : l \in FieldLists}

NextFields ==
    \/ login(AdminName, "policebox2025#")
    \/ \E data \in FieldSnapshots : save_discoveries(data, 0)
    \/ get_discoveries
    \/ discoveries_metadata
    \/ get_discoveries_light

SpecFields == Init /\ [][NextFields]_vars

\* The codec alone: compress_image applied to one payload. The widths and
\* heights lie on both sides of the two boxes; the texts are payloads
\* that are not images, bare, behind a header, behind two commas, and
\* payloads b64decode rejects; the rest are JSON values that are not text.
CodecSides == {1, 3, 199, 200, 201, 799, 800, 801, 1200, 1601, 4000}

CodecImages ==
    {ImageStr(hdr, "A", w, h, 0) : hdr \in {"", PngHeader}, w \in CodecSides, h \in CodecSides}

CodecTexts ==
    {Str(<<"AAAA">>), Str(<<"A">>), Str(<<PngHeader, "AAAA">>), Str(<<PngHeader, "A">>),
     Str(<<DefaultHeader, "AAAA">>), Str(<<PngHeader, "AA", ",", "AA">>), Str(<<PngHeader>>), EmptyStr}

CodecValues ==
    {Null, Num("0"), Num("5"), Arr(<<>>), Arr(<<Num("1")>>), Arr(<<Num("1"), Num("2")>>),
     EmptyObj, Obj([a |-> "1"]), Obj([a |-> "1", b |-> "2"])}

CodecInputs == CodecImages \cup CodecTexts \cup CodecValues

InitCodec ==
    /\ users = <<[username |-> Str(<<"admin">>), password_hash |-> hash_password("policebox2025#"),
                  is_admin |-> 1, share_token |-> 0]>>
    /\ discoveries = <<>>
    /\ photos = {}
    /\ photo_seq = 0
    /\ token_seq = 0
    /\ cache = [key \in CacheKeys |-> Absent]
    /\ stale = {}
    /\ now = 0
    /\ session = NoSession
    /\ conns = [r \in Requests |-> Idle]
    /\ resp \in {[op |-> "input", image_data |-> x] : x \in CodecInputs}

\* one call of compress_image, with the default box and quality
Compress ==
    /\ resp.op = "input"
    /\ resp' = [op |-> "compress_image", image_data |-> resp.image_data,
                result |-> compress_image(resp.image_data)]
    /\ UNCHANGED <<users, discoveries, photos, photo_seq, token_seq, cache, stale, now, session, conns>>

NextCodec == Compress

SpecCodec == InitCodec /\ [][NextCodec]_vars

\* Two synchronizations of the admin account in progress at once, each on
\* its own connection, after at most a few synchronizations made one at a
\* time.
RaceSnapshots ==
    {Items(<<[k |-> "0001", v |-> Obj([photos |-> Arr(<<eNew>>)])]>>),
     Items(<<[k |-> "0001", v |-> Obj([photos |-> Arr(<<eOld>>)])]>>),
     Items(<<[k |-> "0002", v |-> Obj([photos |-> Arr(<<>>)])],
             [k |-> "0001", v |-> Obj([photos |-> Arr(<<eOld, eNew>>)])]>>)}

NextRace ==
    \/ login(AdminName, "policebox2025#")
    \/ \E data \in RaceSnapshots :
          /\ \A r \in Requests : conns[r].pc = "idle"
          /\ save_discoveries(data, 0)
    \/ \E r \in Requests, data \in RaceSnapshots : save_begin(r, data)
    \/ \E r \in Requests : save_select(r)
    \/ \E r \in Requests : save_write(r)
    \/ \E r \in Requests : save_busy(r)
    \/ \E r \in Requests : save_commit(r)
    \/ \E r \in Requests : save_invalidate(r)

SpecRace == Init /\ [][NextRace]_vars

\* Two accounts, one of them the admin: the statistics, the promotion of a
\* user and the passwords, with a few synchronizations to fill the store.
AdminSnapshots ==
    {Items(<<[k |-> "0001", v |-> Obj([photos |-> Arr(<<eNew>>)])]>>),
     Items(<<[k |-> "0001", v |-> Obj([photos |-> Arr(<<eNew>>)])],
             [k |-> "0002", v |-> Obj([photos |-> Arr(<<eNew, eOld>>)])]>>)}

TargetIds == 1..(MaxUsers + 1)
TempPasswords == {"Zx3kQ9_tmp-pass1"}

NextAdmin ==
    \/ register(Str(<<"bob">>), "secret1")
    \/ login(AdminName, "policebox2025#")
    \/ \E password \in {"secret1", "secret2"} \cup TempPasswords : login(Str(<<"bob">>), password)
    \/ logout
    \/ \E data \in AdminSnapshots : save_discoveries(data, 0)
    \/ change_password("secret1", "secret2")
    \/ get_admin_stats
    \/ \E user_id \in TargetIds : promote_user(user_id)
    \/ \E user_id \in TargetIds, temp_password \in TempPasswords :
          admin_reset_password(user_id, temp_password)

SpecAdmin == Init /\ [][NextAdmin]_vars

\* A synchronization of the admin account and a cached read of one of its
\* views in progress at once, after synchronizations made one at a time
\* and before reads made one at a time.
StaleSnapshots ==
    {Items(<<[k |-> "0001", v |-> Obj([photos |-> Arr(<<eNew>>)])]>>),
     Items(<<[k |-> "0001", v |-> Obj([photos |-> Arr(<<eOld>>)])]>>),
     Items(<<[k |-> "0001", v |-> Obj([photos |-> Arr(<<eOld>>)])],
             [k |-> "0002", v |-> Obj([photos |-> Arr(<<eNew>>)])]>>)}

Quiet == \A r \in Requests : conns[r].pc \in {"idle", "done"}

NextStale ==
    \/ login(AdminName, "policebox2025#")
    \/ \E data \in StaleSnapshots :
          /\ \A r \in Requests : conns[r].pc = "idle"
          /\ save_discoveries(data, 0)
    \/ \E data \in StaleSnapshots : save_begin(1, data)
    \/ save_select(1)
    \/ save_write(1)
    \/ save_commit(1)
    \/ save_invalidate(1)
    \/ read_get(2, "get_discoveries", "discoveries_v2")
    \/ read_get(2, "discoveries_metadata", "metadata_v2")
    \/ read_get(2, "get_discoveries_light", "discoveries_light")
    \/ read_query(2)
    \/ read_birds(2)
    \/ read_set(2)
    \/ Quiet /\ get_discoveries
    \/ Quiet /\ discoveries_metadata
    \/ Quiet /\ get_discoveries_light

SpecStale == Init /\ [][NextStale]_vars

\* One client and the admin account, the clock running: the gallery, page
\* by page, next to the cached read of the full projection.
GallerySnapshots ==
    {Items(<<[k |-> "0001", v |-> Obj([photos |-> Arr(<<eNew, eOld>>)])]>>),
     Items(<<[k |-> "0002", v |-> Obj([photos |-> Arr(<<eNew>>)])]>>),
     Items(<<[k |-> "0002", v |-> Obj([photos |-> Arr(<<eOld>>)])],
             [k |-> "0001", v |-> Obj([photos |-> Arr(<<eNew, eOld>>)])]>>)}

GalleryPages == 1..3
GalleryPageSizes == 1..2

NextGallery ==
    \/ login(AdminName, "policebox2025#")
    \/ \E data \in GallerySnapshots, tick_at \in TickAts : save_discoveries(data, tick_at)
    \/ get_discoveries
    \/ \E page \in GalleryPages, per_page \in GalleryPageSizes : discoveries_gallery(page, per_page)
    \/ Tick

SpecGallery == Init /\ [][NextGallery]_vars

(***************************************************************************)
(* The properties                                                          *)
(***************************************************************************)
SaveOk(r) == r.op = "save_discoveries" /\ r.status = 200

\* the entries of a species record that carry a non-empty photo
HasPhoto(entry) == HasKey(entry, "photo") /\ Truthy(entry.m.photo)
SubmittedPhotos(bird_data) ==
    IF HasKey(bird_data, "photos") /\ IsList(bird_data.m.photos)
    THEN SelectSeq(bird_data.m.photos.s, HasPhoto)
    ELSE <<>>

\* the images of the entries submitted and of the photos a read returns
SubmittedImages(bird_data) ==
    LET sent == SubmittedPhotos(bird_data) IN [i \in 1..Len(sent) |-> sent[i].m.photo.img]
ReturnedImages(list) == [i \in 1..Len(list) |-> list[i].photo.img]

\* C1: when a synchronization of snapshot S has succeeded, the read of the
\* full or the light projection that follows it and is computed from the
\* store returns, for every species key of S, exactly the photos S
\* submitted for the key with a non-empty photo, in the order of
\* submission.
C1_ReadAfterSave ==
    [][(/\ SaveOk(resp)
        /\ resp'.op \in {"get_discoveries", "get_discoveries_light"}
        /\ resp'.status = 200
        /\ resp'.user_id = resp.user_id
        /\ ~resp'.from_cache)
       => \A i \in 1..Len(resp.req.items) :
             /\ resp.req.items[i].k \in DOMAIN resp'.body
             /\ ReturnedImages(resp'.body[resp.req.items[i].k].photos)
                    = SubmittedImages(resp.req.items[i].v)]_vars

\* a read recomputed right after a synchronization returns two photos of
\* equal timestamps in the order they were sent, the older image first
C1_Witness ==
    /\ resp.op = "get_discoveries"
    /\ resp.status = 200
    /\ resp.after_write
    /\ \E k \in DOMAIN resp.body :
          /\ ReturnedImages(resp.body[k].photos) = <<"C", "A">>
          /\ resp.body[k].photos[1].id < resp.body[k].photos[2].id

\* C2: a synchronization that fails, whatever it had already processed,
\* leaves the discoveries and the photos exactly as they were before the
\* request.
C2_FailedSaveChangesNothing ==
    [][(resp'.op = "save_discoveries" /\ resp'.status = 500)
       => /\ discoveries' = discoveries
          /\ photos' = photos]_vars

\* a synchronization failed after one species was processed, with a store
\* that holds photos
C2_Witness ==
    /\ resp.op = "save_discoveries"
    /\ resp.status = 500
    /\ resp.req.processed >= 1
    /\ photos # {}

CachedReads == {"get_discoveries", "discoveries_metadata", "get_discoveries_light"}

\* C3: no read of the full, the metadata or the light projection is served
\* from a cache entry that was populated before a synchronization of the
\* same user succeeded: no entry that predates a committed synchronization
\* is left in the cache.
C3_ReadYourWrites ==
    /\ stale = {}
    /\ resp.op \in CachedReads => ~resp.stale

\* a projection is recomputed from the store by the read that follows a
\* synchronization which found an unexpired entry of it in the cache
C3_Witness ==
    /\ resp.op \in CachedReads
    /\ resp.status = 200
    /\ resp.after_write
    /\ ~resp.from_cache
    /\ resp.body # <<>>

\* C4: when a synchronization of user U commits, no cache entry of U is
\* left, whatever the projection.
C4_CommitInvalidates ==
    [][SaveOk(resp')
       => \A key \in CacheKeys : key[2] = resp'.user_id => ~cache'[key].present]_vars

\* a synchronization committed while the three projections of its user
\* were cached
C4_Witness ==
    /\ SaveOk(resp)
    /\ resp.dropped = {<<prefix, resp.user_id>> : prefix \in KeyPrefixes}

\* what the store holds for a species, without the ids and the timestamps
StoredContent(user_id, bird_number) ==
    IF bird_number \in BirdsOf(user_id)
    THEN LET list == PhotoList(DiscoveryOf(user_id, bird_number))
         IN  [i \in 1..Len(list) |-> [list[i] EXCEPT !.id = 0]]
    ELSE <<>>

\* C5: sending the same snapshot twice in a row leaves, for every species
\* of the snapshot, the same photos in the same order as sending it once.
C5_Idempotent ==
    [][(/\ SaveOk(resp) /\ SaveOk(resp')
        /\ resp'.req = resp.req
        /\ resp'.user_id = resp.user_id)
       => \A i \in 1..Len(resp.req.items) :
             StoredContent(resp.user_id, resp.req.items[i].k)'
                = StoredContent(resp.user_id, resp.req.items[i].k)]_vars

\* a snapshot with two photos was sent twice: the photo ids were allocated
\* twice and two photos are stored
C5_Witness ==
    /\ SaveOk(resp)
    /\ photo_seq = 4
    /\ \E i \in 1..Len(resp.req.items) :
          /\ Len(SubmittedPhotos(resp.req.items[i].v)) = 2
          /\ Len(StoredContent(resp.user_id, resp.req.items[i].k)) = 2
    /\ Cardinality(photos) = 2


Unique(discs) ==
    \A i, j \in 1..Len(discs) :
        (discs[i].user_id = discs[j].user_id /\ discs[i].bird_number = discs[j].bird_number) => i = j

\* C6: the store never holds two discoveries of one user and one species,
\* and a synchronization that names a species the user already has creates
\* no second discovery: the one there keeps its first date and has its
\* update time set to the time of the request.
C6_OneDiscoveryPerSpecies ==
    [][/\ Unique(discoveries')
       /\ SaveOk(resp') =>
            \A n \in 1..Len(resp'.req.items) :
               \A i \in FindDiscovery(discoveries, resp'.user_id, resp'.req.items[n].k) :
                  /\ FindDiscovery(discoveries', resp'.user_id, resp'.req.items[n].k) = {i}
                  /\ discoveries'[i].discovered_at = discoveries[i].discovered_at
                  /\ discoveries'[i].updated_at \in now..now']_vars

\* a species was synchronized again at a later time: one discovery, updated
\* after it was first seen
C6_Witness ==
    /\ SaveOk(resp)
    /\ \E n \in 1..Len(resp.req.items) :
          \E i \in FindDiscovery(discoveries, resp.user_id, resp.req.items[n].k) :
             /\ discoveries[i].updated_at > discoveries[i].discovered_at
             /\ discoveries[i].updated_at = now

\* C7: every photo belongs to a discovery that exists and carries the user
\* and the species of that discovery, whether a synchronization or a
\* migration stored it.
C7_PhotoMatchesDiscovery ==
    \A p \in photos :
        /\ p.discovery_id \in 1..Len(discoveries)
        /\ discoveries[p.discovery_id].user_id = p.user_id
        /\ discoveries[p.discovery_id].bird_number = p.bird_number

\* a migration has added a photo to a store that holds photos of two
\* species
C7_Witness ==
    /\ resp.op = "migrate_from_old"
    /\ resp.status = 200
    /\ "migrated_photos" \in DOMAIN resp.body
    /\ resp.body.migrated_photos >= 1
    /\ \E p, q \in photos : p.bird_number # q.bird_number

\* C8: after a synchronization that succeeded the user has a discovery for
\* every species key of the snapshot, whatever its entries, and no step
\* removes a discovery or gives it to another user or species.
C8_DiscoveriesPersist ==
    [][/\ \A i \in 1..Len(discoveries) :
             /\ i <= Len(discoveries')
             /\ discoveries'[i].user_id = discoveries[i].user_id
             /\ discoveries'[i].bird_number = discoveries[i].bird_number
       /\ SaveOk(resp') =>
             \A n \in 1..Len(resp'.req.items) :
                FindDiscovery(discoveries', resp'.user_id, resp'.req.items[n].k) # {}]_vars

\* a snapshot whose species has entries but no photo was synchronized: the
\* discovery is there without a photo
C8_Witness ==
    /\ SaveOk(resp)
    /\ \E n \in 1..Len(resp.req.items) :
          /\ HasKey(resp.req.items[n].v, "photos")
          /\ IsList(resp.req.items[n].v.m.photos)
          /\ resp.req.items[n].v.m.photos.s # <<>>
          /\ SubmittedPhotos(resp.req.items[n].v) = <<>>
          /\ \E i \in FindDiscovery(discoveries, resp.user_id, resp.req.items[n].k) :
                PhotosOfDiscovery(i) = {}

\* whether the data of a synchronization request was empty or missing
SentNothing(r) == IF r.status = 200 THEN ~Truthy(r.req) ELSE r.req.empty

\* C9: a synchronization without a session is refused as unauthenticated,
\* one with a session and an empty or missing mapping is refused for lack
\* of data, and a refused request changes neither the tables nor the cache.
C9_RefusedSaveChangesNothing ==
    [][resp'.op = "save_discoveries" =>
          /\ resp'.user_id = 0 =>
                (resp'.status = 401 /\ resp'.body = [error |-> "Non authentifie"])
          /\ (resp'.user_id # 0 /\ SentNothing(resp')) =>
                (resp'.status = 400 /\ resp'.body = [error |-> "Aucune donnee"])
          /\ resp'.status \in {400, 401} =>
                (discoveries' = discoveries /\ photos' = photos /\ cache' = cache)]_vars

\* a request without data was refused while the user had photos in the
\* store and projections in the cache
C9_Witness ==
    /\ resp.op = "save_discoveries"
    /\ resp.status = 400
    /\ resp.user_id # 0
    /\ resp.req.empty
    /\ photos # {}
    /\ PresentKeys(resp.user_id) # {}

ReadOps ==
    {"get_discoveries", "discoveries_metadata", "discoveries_gallery", "get_discoveries_light",
     "get_photo"}

\* the images the photos table holds for a user and a species
OwnedImages(user_id, bird_number) ==
    {p.photo_data : p \in {q \in photos : q.user_id = user_id /\ q.bird_number = bird_number}}

SharedImages(list) == {list[i].photo : i \in 1..Len(list)}

\* C10: a read of the full, metadata, gallery or light projection or of a
\* photo made without a session is refused as unauthenticated; the only
\* request that returns discoveries without a session is the read of a
\* shared profile, which returns the name, the species and the photos of
\* the one user whose share token is the token sent, and not-found when no
\* user has that token.
C10_ReadsNeedOwner ==
    /\ (resp.op \in ReadOps /\ resp.user_id = 0) =>
          (resp.status = 401 /\ resp.body = [error |-> "Non authentifie"])
    /\ resp.op = "get_shared_profile" =>
          IF \E i \in 1..Len(users) : users[i].share_token = resp.req
          THEN /\ resp.status = 200
               /\ \E i \in 1..Len(users) :
                     /\ users[i].share_token = resp.req
                     /\ \A j \in 1..Len(users) : users[j].share_token = resp.req => j = i
                     /\ resp.body.username = users[i].username
                     /\ DOMAIN resp.body.discoveries =
                           {discoveries[d].bird_number :
                               d \in {e \in 1..Len(discoveries) : discoveries[e].user_id = i}}
                     /\ \A k \in DOMAIN resp.body.discoveries :
                           SharedImages(resp.body.discoveries[k].photos) = OwnedImages(i, k)
          ELSE /\ resp.status = 404
               /\ resp.body = [error |-> "Profil non trouve"]

\* a shared profile was read without a session while two users shared
\* theirs and both had photos: none of the photos returned is one of the
\* other user
C10_Witness ==
    /\ resp.op = "get_shared_profile"
    /\ resp.status = 200
    /\ resp.user_id = 0
    /\ Len(users) = 2
    /\ \A i \in 1..Len(users) : users[i].share_token # 0
    /\ resp.body.total_photos >= 1
    /\ \E i \in 1..Len(users) :
          /\ users[i].share_token # resp.req
          /\ \E p \in photos : p.user_id = i
          /\ \A k \in DOMAIN resp.body.discoveries :
                \A p \in photos :
                   p.photo_data \in SharedImages(resp.body.discoveries[k].photos) => p.user_id # i


\* the rows the store holds for a species of a user, in the order of storage
StoredRows(user_id, bird_number) ==
    IF bird_number \in BirdsOf(user_id)
    THEN OrderByCreated(PhotosOfDiscovery(DiscoveryOf(user_id, bird_number)))
    ELSE <<>>

\* C11: a synchronization stores an entry without id with the primary, the
\* thumbnail and the size the codec returns for its payload, and an entry
\* with an id with its payload and its thumbnail as they were sent and
\* size zero, whether or not a photo with that id is stored.
C11_IdDecidesCodec ==
    [][SaveOk(resp') =>
         \A user_id \in UserIds, bird_number \in Species, n \in 1..Len(resp'.req.items) :
            (resp'.user_id = user_id /\ resp'.req.items[n].k = bird_number) =>
               LET sent == SubmittedPhotos(resp'.req.items[n].v)
                   rows == StoredRows(user_id, bird_number)'
               IN  /\ Len(rows) = Len(sent)
                   /\ \A i \in 1..Len(sent) :
                         IF HasKey(sent[i], "id")
                         THEN /\ rows[i].photo_data = sent[i].m.photo
                              /\ rows[i].photo_thumbnail = Get(sent[i], "thumbnail")
                              /\ rows[i].file_size = 0
                         ELSE /\ rows[i].photo_data = compress_image(sent[i].m.photo).full
                              /\ rows[i].photo_thumbnail = compress_image(sent[i].m.photo).thumbnail
                              /\ rows[i].file_size = compress_image(sent[i].m.photo).size]_vars

\* an entry that carries the id of the photo stored before it, with a
\* payload larger than the box, was stored as the second photo: not
\* resized, without thumbnail, size zero
C11_Witness ==
    /\ SaveOk(resp)
    /\ resp.req.items[1].v.m.photos.s = <<eRaw>>
    /\ photo_seq = 2
    /\ \E p \in photos :
          /\ p.id = 2
          /\ p.photo_data = imgA
          /\ p.photo_thumbnail = EmptyStr
          /\ p.file_size = 0

\* a call of compress_image that caught an exception has returned
Failed(r) == r.op = "compress_image" /\ Raised(r.image_data) # "none"

\* a text that starts with a header: a comma token comes first
HeaderPrefixed(x) == IsText(x) /\ x.v # <<>> /\ Head(x.v) \in {DefaultHeader, PngHeader}

\* C12: when compress_image fails, the thumbnail of the result is absent,
\* the size is zero and the primary is the input as it was given: with
\* its own header when it came with one, and otherwise bare or behind the
\* default header.
C12_DegradedIsVerbatim ==
    Failed(resp) =>
        /\ resp.result.thumbnail = Null
        /\ resp.result.size = 0
        /\ IF HeaderPrefixed(resp.image_data)
           THEN resp.result.full = resp.image_data
           ELSE resp.result.full \in {resp.image_data, Str(<<DefaultHeader>> \o StrOf(resp.image_data))}

\* an entry without id whose payload is a text that is not an image
Undecodable(entry) == ~HasKey(entry, "id") /\ IsText(entry.m.photo)

InvalidCall(r) == r.op = "compress_image" /\ Raised(r.image_data) = "ValueError"

\* C14, as claimed: compress_image fails with an InvalidInput error when
\* the payload is empty or when its base64 decoding fails.
C14_FailsWithInvalidInput == InvalidCall(resp) => resp.result = InvalidInput

\* C14, amended: when the payload is empty or its base64 decoding fails,
\* the error is caught inside compress_image and the caller gets a
\* result with a primary, an absent thumbnail and size zero.
C14_InvalidInputIsCaught ==
    InvalidCall(resp) =>
        /\ DOMAIN resp.result = {"full", "thumbnail", "size"}
        /\ resp.result.full # Null
        /\ resp.result.thumbnail = Null
        /\ resp.result.size = 0

\* compress_image was called on a payload b64decode rejects, behind a
\* header, and has returned the degraded result
C14_Witness ==
    /\ InvalidCall(resp)
    /\ resp.image_data = Str(<<PngHeader, "A">>)
    /\ resp.result = Degraded(Str(<<DefaultHeader, "A">>))

\* a rendition of a w x h image lies within the X x Y box and within the
\* image, is the image's size when the image fits the box, and otherwise
\* touches the box and keeps the proportions to the pixel
Fits(r, w, h, X, Y) ==
    /\ r.w >= 1 /\ r.h >= 1
    /\ r.w <= Min2(w, X)
    /\ r.h <= Min2(h, Y)
    /\ (w <= X /\ h <= Y) => (r.w = w /\ r.h = h)
    /\ (w > X \/ h > Y) => (r.w = X \/ r.h = Y)
    /\ (w > X \/ h > Y) => Abs(r.w * h - r.h * w) <= Max2(w, h)

\* C15: for every image compress_image decodes, of width w and height h,
\* the primary is at most min(w, 800) wide and min(h, 800) high and the
\* thumbnail at most min(w, 200) wide and min(h, 200) high; an image
\* larger than the box is scaled down in proportion, none is scaled up.
C15_RenditionsFitTheBox ==
    (resp.op = "compress_image" /\ IsImage(resp.image_data)) =>
        /\ Fits(resp.result.full, resp.image_data.w, resp.image_data.h, 800, 800)
        /\ Fits(resp.result.thumbnail, resp.image_data.w, resp.image_data.h, 200, 200)
        /\ resp.result.full.img = resp.image_data.img
        /\ resp.result.thumbnail.img = resp.image_data.img

\* a 1601 x 1200 image was compressed to 800 x 600 and 200 x 150
C15_Witness ==
    /\ resp.op = "compress_image"
    /\ IsImage(resp.image_data)
    /\ resp.image_data.w = 1601 /\ resp.image_data.h = 1200
    /\ resp.result.full.w = 800 /\ resp.result.full.h = 600
    /\ resp.result.thumbnail.w = 200 /\ resp.result.thumbnail.h = 150

\* the projection a cached read is of, computed from the store
ProjectionOf(op, user_id) ==
    CASE op = "get_discoveries" -> FullView(user_id)
      [] op = "discoveries_metadata" -> MetadataView(user_id)
      [] op = "get_discoveries_light" -> LightView(user_id)

PrefixOf(op) ==
    CASE op = "get_discoveries" -> "discoveries_v2"
      [] op = "discoveries_metadata" -> "metadata_v2"
      [] op = "get_discoveries_light" -> "discoveries_light"

\* C16: a read of the full, the metadata or the light projection made
\* with a session is never answered with an error, whatever entries the
\* cache has lost; when it finds no entry it returns the projection of
\* the store as it is and leaves that projection in the cache. The state
\* is the one the read leaves: a read changes no table.
C16_CacheLossIsHarmless ==
    (resp.op \in CachedReads /\ resp.user_id # 0) =>
        /\ resp.status = 200
        /\ ~resp.from_cache =>
              /\ resp.body = ProjectionOf(resp.op, resp.user_id)
              /\ cache[<<PrefixOf(resp.op), resp.user_id>>] = Entry(resp.body)

\* the entry of a projection was evicted and the read that followed
\* returned the photos of the store and put them back in the cache
C16_Witness ==
    /\ resp.op = "get_discoveries_light"
    /\ resp.status = 200
    /\ resp.after_evict
    /\ ~resp.from_cache
    /\ photos # {}
    /\ resp.body = LightView(resp.user_id)
    /\ cache[<<"discoveries_light", resp.user_id>>] = Entry(resp.body)

\* a stored value that holds no tag and no bare angle bracket
MarkupFree(x) == IsText(x) => \A i \in 1..Len(x.v) : x.v[i] \notin Tags \cup {"<", ">"}

\* C18: every free-text field (location, city, region, country, date, sex,
\* note) of every stored photo is markup-free, whichever write path, the
\* synchronization or the migration, stored the photo.
C18_StoredTextIsMarkupFree ==
    \A p \in photos : \A f \in TextFields : MarkupFree(p[f])

\* C19: the full and the light read that follow a synchronization return,
\* for every photo sent with coordinates that are a mapping, coordinates
\* equal to that mapping, and for every photo sent with coordinates that
\* are a text json.loads rejects, stored as it is, the empty text.
C19_CoordinatesRoundTrip ==
    [][(/\ SaveOk(resp)
        /\ resp'.op \in {"get_discoveries", "get_discoveries_light"}
        /\ resp'.status = 200
        /\ resp'.user_id = resp.user_id)
       => \A n \in 1..Len(resp.req.items) :
             LET sent == SubmittedPhotos(resp.req.items[n].v)
                 list == resp'.body[resp.req.items[n].k].photos
             IN  /\ Len(list) = Len(sent)
                 /\ \A i \in 1..Len(sent) :
                       LET c == Get(sent[i], "coordinates")
                       IN  /\ IsDict(c) => list[i].coordinates = c
                           /\ (IsText(c) /\ json_loads(c) = JsonError) =>
                                  list[i].coordinates = EmptyStr]_vars

\* a photo sent with latitude and longitude is stored with the JSON text
\* of the mapping and the light read returns the mapping
C19_Witness ==
    /\ resp.op = "get_discoveries_light"
    /\ resp.status = 200
    /\ "0001" \in DOMAIN resp.body
    /\ Len(resp.body["0001"].photos) = 1
    /\ resp.body["0001"].photos[1].coordinates = Obj([lat |-> "45.1", lng |-> "5.2"])
    /\ \E p \in photos :
          p.coordinates = Str(<<"{", "\"lat\":", "45.1", "\"lng\":", "5.2", "}">>)

\* C20: the metadata projection a read computes from the store reports as
\* discovered_count the number of discoveries of the user, those without
\* photo included, as total_photos the number of photos of the user, and
\* for every species of the user, and no other, the number of photos of
\* the user and the species as photo_count, 0 when there is none.
C20_MetadataCounts ==
    (resp.op = "discoveries_metadata" /\ resp.status = 200 /\ ~resp.from_cache) =>
        /\ resp.body.discovered_count =
              Cardinality({i \in 1..Len(discoveries) : discoveries[i].user_id = resp.user_id})
        /\ resp.body.total_photos = Cardinality({p \in photos : p.user_id = resp.user_id})
        /\ DOMAIN resp.body.birds =
              {discoveries[i].bird_number : i \in {j \in 1..Len(discoveries) :
                                                     discoveries[j].user_id = resp.user_id}}
        /\ \A bird_num \in DOMAIN resp.body.birds :
              resp.body.birds[bird_num].photo_count =
                 Cardinality({p \in photos : p.user_id = resp.user_id /\ p.bird_number = bird_num})

\* the metadata of a user with two species, one with a photo and one
\* without, was computed from the store
C20_Witness ==
    /\ resp.op = "discoveries_metadata"
    /\ resp.status = 200
    /\ ~resp.from_cache
    /\ resp.body.discovered_count = 2
    /\ resp.body.total_photos = 1
    /\ \E a, b \in DOMAIN resp.body.birds :
          /\ resp.body.birds[a].photo_count = 1
          /\ resp.body.birds[b].photo_count = 0

\* both requests were made with the session of one user and both are
\* answered, neither for having waited too long for the write lock; the
\* species both snapshots name
BothAnswered ==
    /\ \A r \in Requests :
          /\ conns[r].pc = "done"
          /\ conns[r].status \notin {400, 401}
          /\ conns[r].error # "database is locked"
    /\ conns[1].user_id = conns[2].user_id
KeysOf(data) == {data.items[n].k : n \in 1..Len(data.items)}
RecordOf(data, bird_number) ==
    data.items[CHOOSE n \in 1..Len(data.items) : data.items[n].k = bird_number].v

\* C17: when two synchronizations of one user that name the same species
\* have run at once, the user has one discovery per species, both
\* requests were answered 200, and the photos stored for the species are
\* those of one of the two snapshots. Stated for the runs in which no
\* statement waits for the write lock beyond the timeout.
C17_ConcurrentSavesBothSucceed ==
    BothAnswered =>
        \A bird_number \in KeysOf(conns[1].data) \cap KeysOf(conns[2].data) :
            /\ Unique(discoveries)
            /\ \A r \in Requests : conns[r].status = 200
            /\ \E r \in Requests :
                  ReturnedImages(StoredContent(conns[r].user_id, bird_number))
                     = SubmittedImages(RecordOf(conns[r].data, bird_number))

\* a metadata response computed from the store
MetadataComputed(r) == r.op = "discoveries_metadata" /\ r.status = 200 /\ ~r.from_cache

\* C21: in the metadata projection the list of dates of every species has
\* one element per photo of the species: its length is photo_count,
\* whatever the dates stored (empty, absent, with a comma).
C21_OneDatePerPhoto ==
    MetadataComputed(resp) =>
        \A bird_num \in DOMAIN resp.body.birds :
            Len(resp.body.birds[bird_num].dates) = resp.body.birds[bird_num].photo_count

\* the photo carries coordinates that are not empty: its column is not
\* NULL, not the empty text and not the text of an empty mapping
CarriesCoordinates(p) ==
    /\ p.coordinates # Null
    /\ p.coordinates # EmptyStr
    /\ load_coordinates(p.coordinates) # EmptyObj

\* C22: in the metadata projection has_gps of a species is true exactly
\* when a photo of the species carries non-empty coordinates; it is false
\* for a species without photo and for one whose photos all have empty
\* or absent coordinates.
C22_HasGpsIffCoordinates ==
    MetadataComputed(resp) =>
        \A bird_num \in DOMAIN resp.body.birds :
            resp.body.birds[bird_num].has_gps
               <=> \E p \in photos : /\ p.user_id = resp.user_id
                                      /\ p.bird_number = bird_num
                                      /\ CarriesCoordinates(p)

\* the photo summaries of pages 1..n of the gallery of a user, in a row
RECURSIVE FirstPages(_, _, _)
FirstPages(user_id, per_page, n) ==
    IF n = 0 THEN <<>>
    ELSE FirstPages(user_id, per_page, n - 1) \o GalleryView(user_id, n, per_page).photos

CreatedAt(photo_id) == (CHOOSE p \in photos : p.id = photo_id).created_at

\* C23: a gallery read of a user with T photos, for a page size of 1 or
\* more, reports total = T and total_pages = the ceiling of T / per_page
\* and returns at most per_page photos; the pages 1..total_pages, one
\* after the other, hold every photo of the user once, the latest
\* created first, and the page returned is its part of that row.
C23_GalleryPaging ==
    (resp.op = "discoveries_gallery" /\ resp.status = 200) =>
        LET page == resp.req[1]
            per_page == resp.req[2]
            mine == {p.id : p \in {q \in photos : q.user_id = resp.user_id}}
            T == Cardinality(mine)
            all == FirstPages(resp.user_id, per_page, resp.body.total_pages)
        IN  /\ resp.body.total = T
            /\ resp.body.total_pages * per_page >= T
            /\ (resp.body.total_pages - 1) * per_page < T
            /\ Len(resp.body.photos) <= per_page
            /\ Len(all) = T
            /\ {all[i].id : i \in 1..Len(all)} = mine
            /\ \A i, j \in 1..Len(all) : i < j => CreatedAt(all[i].id) >= CreatedAt(all[j].id)
            /\ resp.body.photos =
                  SubSeq(all, (page - 1) * per_page + 1, Min2(T, page * per_page))

\* the second of two pages of a user with three photos stored at two
\* different times: one photo, the oldest
C23_Witness ==
    /\ resp.op = "discoveries_gallery"
    /\ resp.status = 200
    /\ resp.req = <<2, 2>>
    /\ resp.body.total = 3
    /\ resp.body.total_pages = 2
    /\ Len(resp.body.photos) = 1
    /\ \E p \in photos : CreatedAt(resp.body.photos[1].id) < p.created_at

\* C24: a gallery read leaves every cache entry as it was, and what it
\* returns is taken from the store as it is at the time of the read: the
\* total is the number of photos the user has and every summary returned
\* is the id, species, thumbnail, date, location and city of one of them,
\* whether or not a view of the user is in the cache.
C24_GalleryIsNotCached ==
    [][(resp'.op = "discoveries_gallery" /\ resp'.status = 200) =>
          /\ cache' = cache
          /\ resp'.body.total = Cardinality({p \in photos' : p.user_id = resp'.user_id})
          /\ \A i \in 1..Len(resp'.body.photos) :
                \E p \in photos' :
                    /\ p.user_id = resp'.user_id
                    /\ resp'.body.photos[i] =
                          [id |-> p.id, bird_number |-> p.bird_number,
                           photo_thumbnail |-> p.photo_thumbnail, date |-> p.date,
                           location |-> p.location, city |-> p.city]]_vars

\* a gallery read of a user whose full view is in the cache and whose
\* store holds photos
C24_Witness ==
    /\ resp.op = "discoveries_gallery"
    /\ resp.status = 200
    /\ cache[<<"discoveries_v2", resp.user_id>>].present
    /\ Len(resp.body.photos) = 2

\* the texts of the exceptions of the store
StorageErrors == {UniqueFailed, NotNullFailed, BindingFailed, DatabaseLocked}

\* C25: a synchronization that fails answers without the text of the
\* exception the store raised, and the tables are then as they were
\* before the request.
C25_FailureIsGeneric ==
    [][(resp'.op = "save_discoveries" /\ resp'.status = 500) =>
          /\ resp'.body.error \notin StorageErrors
          /\ discoveries' = discoveries
          /\ photos' = photos]_vars

\* C26: a synchronization leaves every discovery that existed before it
\* in its row, with its owner, its species and its first-seen time; of
\* such a row only the updated-at time may differ afterwards.
C26_ResyncKeepsFirstSeen ==
    [][resp'.op = "save_discoveries" =>
          /\ Len(discoveries') >= Len(discoveries)
          /\ \A discovery_id \in 1..Len(discoveries) :
                discoveries'[discovery_id] =
                    [discoveries[discovery_id] EXCEPT
                        !.updated_at = discoveries'[discovery_id].updated_at]]_vars

\* a species synchronized again at a later time: touched, first seen before
C26_Witness ==
    /\ resp.op = "save_discoveries"
    /\ resp.status = 200
    /\ \E discovery_id \in 1..Len(discoveries) :
          /\ discoveries[discovery_id].updated_at = now
          /\ discoveries[discovery_id].discovered_at < now
          /\ \E item \in {resp.req.items[i] : i \in 1..Len(resp.req.items)} :
                item.k = discoveries[discovery_id].bird_number

\* C27: a registration under a name a user already has, as it is stored
\* once sanitized, is answered with a status of the 4xx class, leaves the
\* users table and the session of the caller as they were, and no two
\* users ever have the same name.
C27_DuplicateRegistrationRefused ==
    [][(/\ resp'.op = "register"
        /\ \E i \in 1..Len(users) : users[i].username = sanitize_input(resp'.req[1]))
          => /\ resp'.status \in 400..499
             /\ users' = users
             /\ session' = session
             /\ \A i, j \in 1..Len(users') :
                   users'[i].username = users'[j].username => i = j]_vars

\* the name of a registered user sent again with markup around it, and a
\* password long enough: refused for the name alone
C27_Witness ==
    /\ resp.op = "register"
    /\ resp.status = 400
    /\ resp.body.error = "Ce nom d'utilisateur existe deja"
    /\ resp.req[1] # sanitize_input(resp.req[1])
    /\ Len(users) = 2

\* C28: a synchronization of user U with the species keys K leaves as
\* they were every discovery and every photo that is not of U and of a
\* species in K, and every cache entry of another user; the rows it adds
\* are of U and of a species in K. One that is refused or fails changes
\* no row and no cache entry.
C28_SaveTouchesItsKeysOnly ==
    [][resp'.op = "save_discoveries" =>
          IF resp'.status = 200 THEN
              LET U == resp'.user_id
                  K == {resp'.req.items[i].k : i \in 1..Len(resp'.req.items)}
              IN  /\ Len(discoveries') >= Len(discoveries)
                  /\ \A i \in 1..Len(discoveries) :
                        (discoveries[i].user_id # U \/ discoveries[i].bird_number \notin K)
                            => discoveries'[i] = discoveries[i]
                  /\ \A i \in (Len(discoveries) + 1)..Len(discoveries') :
                        discoveries'[i].user_id = U /\ discoveries'[i].bird_number \in K
                  /\ {p \in photos : p.user_id # U \/ p.bird_number \notin K}
                        = {p \in photos' : p.user_id # U \/ p.bird_number \notin K}
                  /\ \A key \in CacheKeys : key[2] # U => cache'[key] = cache[key]
          ELSE /\ discoveries' = discoveries
               /\ photos' = photos
               /\ cache' = cache]_vars

\* a synchronization of the second user while the first has a photo in
\* the store and a view in the cache
C28_Witness ==
    /\ resp.op = "save_discoveries"
    /\ resp.status = 200
    /\ resp.user_id = 2
    /\ \E p \in photos : p.user_id = 1
    /\ \E p \in photos : p.user_id = 2
    /\ cache[<<"discoveries_v2", 1>>].present

\* C29: once a synchronization that ran next to a cached read has
\* returned, and no synchronization is in progress, a read of the full,
\* the metadata or the light view that is answered from the cache returns
\* the view of the store as it is: the read that ran next to the
\* synchronization has left nothing older in the cache.
C29_NoStaleEntryAfterConcurrentRead ==
    (/\ \A r \in Requests : conns[r].pc \notin {"select", "write", "commit", "invalidate"}
     /\ resp.op \in CachedReads
     /\ resp.status = 200
     /\ resp.from_cache)
        => resp.body = ProjectionOf(resp.op, resp.user_id)

\* the read a cache key is the entry of
ReadOf(prefix) == CHOOSE op \in CachedReads : PrefixOf(op) = prefix

\* C30: with no request in progress, every entry present in the cache,
\* of the full, the metadata or the light view of a user, is the view of
\* the store as it is for that user, after synchronizations and
\* migrations included.
C30_CacheIsCoherent ==
    (\A r \in Requests : conns[r].pc = "idle") =>
        \A key \in CacheKeys :
            cache[key].present => cache[key].val = ProjectionOf(ReadOf(key[1]), key[2])

\* the committed photo rows of a species of a user
CommittedIds(user_id, bird_number) ==
    {p.id : p \in {q \in photos : q.user_id = user_id /\ q.bird_number = bird_number}}

HasDiscovery(user_id, bird_number) ==
    \E i \in 1..Len(discoveries) :
        discoveries[i].user_id = user_id /\ discoveries[i].bird_number = bird_number

C32_UserStatsCountRows ==
    (resp.op = "get_admin_stats" /\ resp.status = 200) =>
        \A row \in resp.body.users :
            LET ps == {p \in photos : p.user_id = row.id}
            IN  /\ row.discoveries_count
                      = Cardinality({i \in 1..Len(discoveries) : discoveries[i].user_id = row.id})
                /\ row.photos_count = Cardinality(ps)
                /\ row.storage_used \in {Null, Integer(SumSize(ps))}
                /\ row.storage_used = Null => ps = {}

\* C33: no share token is the token of two users; a regeneration gives
\* the user a token that resolves to that user and to nobody else, and
\* the token the user had before is from then on the token of nobody:
\* a token that was handed out and is no longer the token of a user never
\* becomes one again, and the share read of a token answers not-found
\* exactly when no user has it.
C33_RegeneratedTokenReplacesTheOld ==
    [][/\ \A token \in Tokens :
             Cardinality({i \in 1..Len(users') : users'[i].share_token = token}) <= 1
       /\ (/\ resp'.op = "regenerate_share_token"
           /\ resp'.status = 200
           /\ token_seq' # token_seq)
             => /\ users'[resp'.user_id].share_token = resp'.body.share_token
                /\ resp'.body.share_token # users[resp'.user_id].share_token
                /\ users[resp'.user_id].share_token # 0 =>
                      \A i \in 1..Len(users') :
                          users'[i].share_token # users[resp'.user_id].share_token
       /\ \A token \in Tokens :
             (token <= token_seq /\ UsersWithToken(token) = {})
                 => \A i \in 1..Len(users') : users'[i].share_token # token
       /\ resp'.op = "get_shared_profile"
             => (resp'.status = 404
                   <=> \A i \in 1..Len(users') : users'[i].share_token # resp'.req)]_vars

\* the share read of the first token handed out, not found once its user
\* has regenerated: the user's token is the second
C33_Witness ==
    /\ resp.op = "get_shared_profile"
    /\ resp.status = 404
    /\ resp.req = 1
    /\ token_seq = 2
    /\ \E i \in 1..Len(users) : users[i].share_token = 2
    /\ UsersWithToken(1) = {}

\* the session is bound to a user whose row has the admin flag set
SessionOfAdmin ==
    \E i \in 1..Len(users) : i = session.user_id /\ users[i].is_admin = 1

\* C34: the admin flag or the password of a user other than the one of
\* the session changes only by a promotion or a password reset that
\* succeeds, made with the session of a user who has the admin flag; a
\* promotion or a reset asked without such a session is refused with 401
\* or 403 and leaves the users table as it was; and an admin flag that is
\* set stays set.
C34_AdminOnly ==
    [][/\ \A i \in 1..Len(users) :
             /\ users[i].is_admin # 0 => users'[i].is_admin # 0
             /\ (/\ i # session.user_id
                 /\ \/ users'[i].is_admin # users[i].is_admin
                    \/ users'[i].password_hash # users[i].password_hash)
                   => /\ SessionOfAdmin
                      /\ resp'.op \in {"promote_user", "admin_reset_password"}
                      /\ resp'.status = 200
                      /\ resp'.req = <<i>>
       /\ (resp'.op \in {"promote_user", "admin_reset_password"} /\ ~SessionOfAdmin)
             => /\ resp'.status \in {401, 403}
                /\ users' = users]_vars

\* the second user, without the admin flag, asks for the promotion of a
\* user and is refused
C34_Witness ==
    /\ resp.op = "promote_user"
    /\ resp.status = 403
    /\ resp.user_id = 2
    /\ Len(users) = 2
    /\ users[2].is_admin = 0
====
